---------------------------- MODULE Spec2Model ----------------------------
(***************************************************************************)
(* A model of the three lock-free containers of the repository:            *)
(*                                                                         *)
(*   SPSCRingBuffer<T, CAPACITY>  (examples/include/SPSCRingBuffer.h)      *)
(*   MPSCQueue<T>                 (examples/include/MPSCQueue.h)           *)
(*   LockFreeStack<T>             (examples/include/LockFreeStack.h)       *)
(*                                                                         *)
(* Every atomic load, store, exchange and compare-exchange of the code is  *)
(* one action, so that the behaviours of a specification are the           *)
(* interleavings of the threads' atomic steps.  The three containers do    *)
(* not call one another; `inst' records which of them the program under    *)
(* consideration has constructed.                                          *)
(*                                                                         *)
(* Names follow the source.  Both the ring buffer and the stack call their *)
(* members mHead, so the stack's tagged head is sHead here; the queue's    *)
(* members keep their names head_ and tail_.                               *)
(***************************************************************************)
EXTENDS Integers, Sequences, FiniteSets, Bags, TLC

VARIABLES
    inst,       \* which container was constructed: "ring", "queue", "stack"
    \* ---- SPSCRingBuffer ----
    mHead,      \* std::atomic<size_t> mHead
    mTail,      \* std::atomic<size_t> mTail
    mBuffer,    \* std::array<T, CAPACITY> mBuffer
    pPc,        \* producer: position in push
    pTail,      \* producer: local `tail'
    pNext,      \* producer: local `next'
    pItem,      \* producer: the argument `item'
    pRet,       \* producer: result of the last push ("none" before the first)
    pEntry,     \* producer: head, tail, slots and pop count when push was called
    cPc,        \* consumer: position in pop
    cHead,      \* consumer: local `head'
    cItem,      \* consumer: the caller's output argument `item'
    cRet,       \* consumer: result of the last pop
    cEntry,     \* consumer: value of the output argument when pop was called
    cSeen,      \* consumer: number of elements held when pop read mTail
    pSeen,      \* producer: number of elements held when push read mHead
    pushed,     \* values accepted by pushes that returned true, in order
    popped,     \* values returned by pops that returned true, in order
    pDone,      \* the flag producer_done of the tests: the producer has finished
    cStop,      \* consumer: it has left its loop (producer_done and empty() seen)
    cFirst,     \* consumer: the index its call of empty() loaded first
    mPc,        \* monitoring thread: position in size(), empty(), full()
    mOp,        \* monitoring thread: the query it called last
    mFirst,     \* monitoring thread: the index its query loaded first
    mRet,       \* monitoring thread: result of its last size() or capacity()
    mFlag,      \* monitoring thread: result of its last empty() or full()
    mLo,        \* least number of elements held since the running query began
    mHi,        \* greatest number of elements held since the running query began
    mWasHeld,   \* the last query's answer was true of some moment of the call
    nCapacity,  \* the template argument CAPACITY of a buffer of any declared size
    nHead,      \* mHead of that buffer
    nTail,      \* mTail of that buffer
    \* ---- MPSCQueue ----
    head_,      \* Node* head_
    tail_,      \* std::atomic<Node*> tail_
    qNext,      \* Node::next of every node
    qData,      \* Node::data of every node
    qAlloc,     \* the nodes that are allocated (new'ed and not yet deleted)
    qPc,        \* each producer's position in push
    qNode,      \* each producer's local `node'
    qPrev,      \* each producer's local `prev'
    qRet,       \* each producer's result of its last push
    kPc,        \* consumer: position in pop
    kNext,      \* consumer: local `next'
    kValue,     \* consumer: the caller's output argument `value'
    kRet,       \* consumer: result of the last pop
    kEntry,     \* consumer: value of the output argument when pop was called
    qFreedUse,  \* TRUE once a deleted node has been read or written
    qCalled,    \* each producer's values in the order it called push
    qPushed,    \* the pushed values in the order of the tail exchanges
    qPopped,    \* values returned by pops that returned true, in order
    qdPc,       \* ~MPSCQueue: "live" before it is called, "walk", then "done"
    qdCurrent,  \* ~MPSCQueue: local `current'
    \* ---- LockFreeStack ----
    sHead,      \* std::atomic<TaggedPtr> mHead: [ptr, counter]
    mSize,      \* std::atomic<size_t> mSize, as an integer (negative: wrapped)
    sNext,      \* Node::next of every node
    sData,      \* Node::data of every node
    sAlloc,     \* the nodes that are allocated (new'ed and not yet deleted)
    tPc,        \* each thread's position in push or pop
    tNode,      \* each thread's local `node' (push)
    tHead,      \* each thread's local `head'
    tNew,       \* each thread's local `newNode.ptr' (pop)
    tValue,     \* each thread's output argument `value' (pop)
    tRet,       \* each thread's result of its last pop ("none" after a push)
    tEntry,     \* each thread's value of the output argument when pop was called,
                \* kept until that call returns true
    sFreedUse,  \* TRUE once a deleted node has been read, written or deleted
    sAbs,       \* the sequential stack: values in the order of the successful CASes
    sPushCount, \* how often each value was pushed (successful CAS of push)
    sPopCount,  \* how often each value was returned by a successful pop
    sUpdates,   \* number of successful compare-exchanges of mHead so far
    tSeen,      \* each thread's value of sUpdates when it last read mHead into head
    tTop,       \* each thread's top of the sequential stack at its successful pop CAS
    sdPc,       \* ~LockFreeStack: "live" before it is called, "walk", then "done"
    sdHead      \* ~LockFreeStack: local `head'

rbVars == <<mHead, mTail, mBuffer, pPc, pTail, pNext, pItem, pRet, pEntry,
            cPc, cHead, cItem, cRet, cEntry, cSeen, pSeen, pushed, popped,
            pDone, cStop, cFirst, mPc, mOp, mFirst, mRet, mFlag, mLo, mHi,
            mWasHeld>>

qVars == <<head_, tail_, qNext, qData, qAlloc, qPc, qNode, qPrev, qRet,
           kPc, kNext, kValue, kRet, kEntry, qFreedUse, qCalled, qPushed, qPopped,
           qdPc, qdCurrent>>

sVars == <<sHead, mSize, sNext, sData, sAlloc, tPc, tNode, tHead, tNew, tValue,
           tRet, tEntry, sFreedUse, sAbs, sPushCount, sPopCount,
           sUpdates, tSeen, tTop, sdPc, sdHead>>

\* the indices of a buffer of any declared size
ixVars == <<nCapacity, nHead, nTail>>

\* the locals of the destructors
qDtorVars == <<qdPc, qdCurrent>>
sDtorVars == <<sdPc, sdHead>>

vars == <<inst, rbVars, qVars, sVars, ixVars>>

\* an operation on one container leaves the other two containers alone
RingFrame == UNCHANGED <<inst, qVars, sVars, ixVars>>
QueueFrame == UNCHANGED <<inst, rbVars, sVars, ixVars>>
StackFrame == UNCHANGED <<inst, rbVars, qVars, ixVars>>

-----------------------------------------------------------------------------
(* Bounds of the model *)

\* number of distinct values a caller passes to push
NumValues == 2
\* number of pushes of the ring buffer that may succeed in one behaviour
MaxRingPush == 5

\* number of producer threads of the queue
NumProducers == 2
\* number of push calls on the queue in one behaviour
MaxQueuePush == 3
\* number of addresses the allocator hands out for queue nodes
MaxQueueNodes == 3

\* number of push calls on the stack in one behaviour
MaxStackPush == 3
\* number of addresses the allocator hands out for stack nodes
MaxStackNodes == 2

\* number of calls of push in the behaviours checked for progress and in
\* those that end with the destructor
MaxLivePush == 2

\* log2 of the greatest declared size of a ring buffer whose indices are checked
MaxLogCapacity == 4

Values == 1..NumValues

-----------------------------------------------------------------------------
(* Arithmetic of the code *)

RECURSIVE BitAnd(_, _)
\* a & b on naturals, bit by bit
BitAnd(a, b) ==
    IF a = 0 \/ b = 0 THEN 0
    ELSE (a % 2) * (b % 2) + 2 * BitAnd(a \div 2, b \div 2)

-----------------------------------------------------------------------------
(* SPSCRingBuffer *)

\* the template argument CAPACITY, as SPSCRingBuffer<int, 4> of the tests
CAPACITY == 4

\* a slot of the default-constructed array that no push has written yet,
\* and the caller's variable before any pop has written it
Unwritten == 0

Slots == 0..(CAPACITY - 1)

\* a variant of NextIndex that reduces modulo CAPACITY - 1 instead of masking
NextIndexModMask(i) == (i + 1) % (CAPACITY - 1)

\* (i + 1) & (CAPACITY - 1)
NextIndex(i) == BitAnd(i + 1, CAPACITY - 1)

\* a variant of SizeOf that does not add CAPACITY when tail is behind head
SizeOfNoWrap(tail, head) == IF tail >= head THEN tail - head ELSE 0

\* a variant of SizeOf that does not mask the sum
SizeOfNoMask(tail, head) == tail - head + CAPACITY

\* (tail - head + CAPACITY) & (CAPACITY - 1), the body of size()
SizeOf(tail, head) == BitAnd(tail - head + CAPACITY, CAPACITY - 1)

\* size()
size == SizeOf(mTail, mHead)

\* capacity()
capacity == CAPACITY - 1

\* empty()
empty == mHead = mTail

\* full()
full == NextIndex(mTail) = mHead

\* a variant of PushSeesFull that never reports full
PushSeesFullNever(next, head) == FALSE

\* a variant of PushSeesFull that reports full one element early
PushSeesFullEarly(next, head) == next = head \/ NextIndex(next) = head

\* push: `next == mHead.load(acquire)'
PushSeesFull(next, head) == next = head

\* a variant of PopSeesEmpty that reports empty while one element is left
PopSeesEmptyEarly(head, tail) == head = tail \/ NextIndex(head) = tail

\* pop: `head == mTail.load(acquire)'
PopSeesEmpty(head, tail) == head = tail

\* number of elements held: accepted by a push and not yet returned by a pop
held == Len(pushed) - Len(popped)

\* the shared state a call of push finds
RingSnapshot == [head |-> mHead, tail |-> mTail, buf |-> mBuffer,
                 npop |-> Len(popped)]

RingInit ==
    /\ mHead = 0
    /\ mTail = 0
    /\ mBuffer = [i \in Slots |-> Unwritten]
    /\ pPc = "idle"
    /\ pTail = 0
    /\ pNext = 0
    /\ pItem = Unwritten
    /\ pRet = "none"
    /\ pEntry = [head |-> 0, tail |-> 0, buf |-> [i \in Slots |-> Unwritten],
                 npop |-> 0]
    /\ cPc = "idle"
    /\ cHead = 0
    /\ cItem = Unwritten
    /\ cRet = "none"
    /\ cEntry = Unwritten
    /\ cSeen = 0
    /\ pSeen = 0
    /\ pushed = <<>>
    /\ popped = <<>>
    /\ pDone = FALSE
    /\ cStop = FALSE
    /\ cFirst = 0
    /\ mPc = "idle"
    /\ mOp = "none"
    /\ mFirst = 0
    /\ mRet = 0
    /\ mFlag = "none"
    /\ mLo = 0
    /\ mHi = 0
    /\ mWasHeld = FALSE

\* the state of the monitoring thread and of the drain loop of the tests
monitorVars == <<mPc, mOp, mFirst, mRet, mFlag, mLo, mHi, mWasHeld>>
drainVars == <<pDone, cStop, cFirst>>

\* the range of element counts since the running query began, once the count is h
MonitorTracks(h) ==
    IF mPc = "idle"
    THEN UNCHANGED <<mLo, mHi>>
    ELSE /\ mLo' = IF h < mLo THEN h ELSE mLo
         /\ mHi' = IF h > mHi THEN h ELSE mHi

producerVars == <<pPc, pTail, pNext, pItem, pRet, pEntry, pSeen>>
consumerVars == <<cPc, cHead, cItem, cRet, cEntry, cSeen>>

\* push(item): size_t tail = mTail.load(relaxed); next = (tail + 1) & (CAPACITY - 1)
RingPushLoadTail(v) ==
    /\ inst = "ring"
    /\ RingFrame
    /\ UNCHANGED <<drainVars, monitorVars>>
    /\ ~pDone
    /\ pPc = "idle"
    /\ Len(pushed) < MaxRingPush
    /\ pItem' = v
    /\ pTail' = mTail
    /\ pNext' = NextIndex(mTail)
    /\ pEntry' = RingSnapshot
    /\ pRet' = "none"
    /\ pPc' = "check"
    /\ UNCHANGED <<mHead, mTail, mBuffer, pSeen, consumerVars, pushed, popped>>

\* a variant of RingPushCheck that stores the item before it tests for full
RingPushCheckStoresFirst ==
    /\ inst = "ring"
    /\ RingFrame
    /\ UNCHANGED <<drainVars, monitorVars>>
    /\ pPc = "check"
    /\ pSeen' = held
    /\ mBuffer' = [mBuffer EXCEPT ![pTail] = pItem]
    /\ IF PushSeesFull(pNext, mHead)
       THEN /\ pPc' = "idle"
            /\ pRet' = "false"
       ELSE /\ pPc' = "write"
            /\ pRet' = pRet
    /\ UNCHANGED <<mHead, mTail, pTail, pNext, pItem, pEntry,
                   consumerVars, pushed, popped>>

\* a variant of RingPushCheck that waits for the consumer while the buffer is full
RingPushCheckWaits ==
    /\ inst = "ring"
    /\ RingFrame
    /\ UNCHANGED <<drainVars, monitorVars>>
    /\ pPc = "check"
    /\ ~PushSeesFull(pNext, mHead)
    /\ pSeen' = held
    /\ pPc' = "write"
    /\ UNCHANGED <<mHead, mTail, mBuffer, pTail, pNext, pItem, pRet, pEntry,
                   consumerVars, pushed, popped>>

\* a variant of RingPushCheck that publishes the new tail before the slot is written
RingPushCheckPublishes ==
    /\ inst = "ring"
    /\ RingFrame
    /\ UNCHANGED <<drainVars, monitorVars>>
    /\ pPc = "check"
    /\ pSeen' = held
    /\ IF PushSeesFull(pNext, mHead)
       THEN /\ pPc' = "idle"
            /\ pRet' = "false"
       ELSE /\ pPc' = "write"
            /\ pRet' = pRet
    /\ mTail' = IF PushSeesFull(pNext, mHead) THEN mTail ELSE pNext
    /\ UNCHANGED <<mHead, mBuffer, pTail, pNext, pItem, pEntry,
                   consumerVars, pushed, popped>>

\* if (next == mHead.load(acquire)) return false;
RingPushCheck ==
    /\ inst = "ring"
    /\ RingFrame
    /\ UNCHANGED <<drainVars, monitorVars>>
    /\ pPc = "check"
    /\ pSeen' = held
    /\ IF PushSeesFull(pNext, mHead)
       THEN /\ pPc' = "idle"
            /\ pRet' = "false"
       ELSE /\ pPc' = "write"
            /\ pRet' = pRet
    /\ UNCHANGED <<mHead, mTail, mBuffer, pTail, pNext, pItem, pEntry,
                   consumerVars, pushed, popped>>

\* a variant of RingPushWrite that stores into the slot after tail
RingPushWriteNextSlot ==
    /\ inst = "ring"
    /\ RingFrame
    /\ UNCHANGED <<drainVars, monitorVars>>
    /\ pPc = "write"
    /\ mBuffer' = [mBuffer EXCEPT ![pNext] = pItem]
    /\ pPc' = "store"
    /\ UNCHANGED <<mHead, mTail, pTail, pNext, pItem, pRet, pEntry, pSeen,
                   consumerVars, pushed, popped>>

\* mBuffer[tail] = item;
RingPushWrite ==
    /\ inst = "ring"
    /\ RingFrame
    /\ UNCHANGED <<drainVars, monitorVars>>
    /\ pPc = "write"
    /\ mBuffer' = [mBuffer EXCEPT ![pTail] = pItem]
    /\ pPc' = "store"
    /\ UNCHANGED <<mHead, mTail, pTail, pNext, pItem, pRet, pEntry, pSeen,
                   consumerVars, pushed, popped>>

\* mTail.store(next, release); return true;
RingPushStore ==
    /\ inst = "ring"
    /\ RingFrame
    /\ UNCHANGED <<drainVars, mPc, mOp, mFirst, mRet, mFlag, mWasHeld>>
    /\ MonitorTracks(held + 1)
    /\ pPc = "store"
    /\ mTail' = pNext
    /\ pushed' = Append(pushed, pItem)
    /\ pRet' = "true"
    /\ pPc' = "idle"
    /\ UNCHANGED <<mHead, mBuffer, pTail, pNext, pItem, pEntry, pSeen,
                   consumerVars, popped>>

\* pop(item): size_t head = mHead.load(relaxed);
RingPopLoadHead ==
    /\ inst = "ring"
    /\ RingFrame
    /\ UNCHANGED <<drainVars, monitorVars>>
    /\ ~cStop
    /\ cPc = "idle"
    /\ cHead' = mHead
    /\ cEntry' = cItem
    /\ cRet' = "none"
    /\ cPc' = "check"
    /\ UNCHANGED <<mHead, mTail, mBuffer, cItem, cSeen, producerVars,
                   pushed, popped>>

\* a variant of RingPopCheck that advances head also when it finds the buffer empty
RingPopCheckAdvances ==
    /\ inst = "ring"
    /\ RingFrame
    /\ UNCHANGED <<drainVars, monitorVars>>
    /\ cPc = "check"
    /\ cSeen' = held
    /\ IF PopSeesEmpty(cHead, mTail)
       THEN /\ cPc' = "idle"
            /\ cRet' = "false"
       ELSE /\ cPc' = "read"
            /\ cRet' = cRet
    /\ mHead' = IF PopSeesEmpty(cHead, mTail) THEN NextIndex(cHead) ELSE mHead
    /\ UNCHANGED <<mTail, mBuffer, cHead, cItem, cEntry, producerVars,
                   pushed, popped>>

\* if (head == mTail.load(acquire)) return false;
RingPopCheck ==
    /\ inst = "ring"
    /\ RingFrame
    /\ UNCHANGED <<drainVars, monitorVars>>
    /\ cPc = "check"
    /\ cSeen' = held
    /\ IF PopSeesEmpty(cHead, mTail)
       THEN /\ cPc' = "idle"
            /\ cRet' = "false"
       ELSE /\ cPc' = "read"
            /\ cRet' = cRet
    /\ UNCHANGED <<mHead, mTail, mBuffer, cHead, cItem, cEntry, producerVars,
                   pushed, popped>>

\* item = std::move(mBuffer[head]);   (T is int in the tests: the slot keeps its value)
RingPopRead ==
    /\ inst = "ring"
    /\ RingFrame
    /\ UNCHANGED <<drainVars, monitorVars>>
    /\ cPc = "read"
    /\ cItem' = mBuffer[cHead]
    /\ cPc' = "store"
    /\ UNCHANGED <<mHead, mTail, mBuffer, cHead, cRet, cEntry, cSeen,
                   producerVars, pushed, popped>>

\* a variant of RingPopStore that keeps head on the last slot instead of wrapping
RingPopStoreNoWrap ==
    /\ inst = "ring"
    /\ RingFrame
    /\ UNCHANGED <<drainVars, mPc, mOp, mFirst, mRet, mFlag, mWasHeld>>
    /\ MonitorTracks(held - 1)
    /\ cPc = "store"
    /\ mHead' = IF cHead + 1 = CAPACITY THEN cHead ELSE cHead + 1
    /\ popped' = Append(popped, cItem)
    /\ cRet' = "true"
    /\ cPc' = "idle"
    /\ UNCHANGED <<mTail, mBuffer, cHead, cItem, cEntry, cSeen, producerVars,
                   pushed>>

\* a variant of RingPopStore that moves both indices to 0 when the buffer empties
RingPopStoreRewinds ==
    /\ inst = "ring"
    /\ RingFrame
    /\ UNCHANGED <<drainVars, mPc, mOp, mFirst, mRet, mFlag, mWasHeld>>
    /\ MonitorTracks(held - 1)
    /\ cPc = "store"
    /\ mHead' = IF NextIndex(cHead) = mTail THEN 0 ELSE NextIndex(cHead)
    /\ mTail' = IF NextIndex(cHead) = mTail THEN 0 ELSE mTail
    /\ popped' = Append(popped, cItem)
    /\ cRet' = "true"
    /\ cPc' = "idle"
    /\ UNCHANGED <<mBuffer, cHead, cItem, cEntry, cSeen, producerVars,
                   pushed>>

\* mHead.store((head + 1) & (CAPACITY - 1), release); return true;
RingPopStore ==
    /\ inst = "ring"
    /\ RingFrame
    /\ UNCHANGED <<drainVars, mPc, mOp, mFirst, mRet, mFlag, mWasHeld>>
    /\ MonitorTracks(held - 1)
    /\ cPc = "store"
    /\ mHead' = NextIndex(cHead)
    /\ popped' = Append(popped, cItem)
    /\ cRet' = "true"
    /\ cPc' = "idle"
    /\ UNCHANGED <<mTail, mBuffer, cHead, cItem, cEntry, cSeen, producerVars,
                   pushed>>

RingNext ==
    \/ \E v \in Values : RingPushLoadTail(v)
    \/ RingPushCheck
    \/ RingPushWrite
    \/ RingPushStore
    \/ RingPopLoadHead
    \/ RingPopCheck
    \/ RingPopRead
    \/ RingPopStore

\* the value the producer of the tests passes to push: the number of the item,
\* for (i = 0; i < NUM_ITEMS; ++i) while (!buffer.push(i)) yield();
NextTestValue == Len(pushed) + 1

\* producer and consumer when the producer pushes the items 1, 2, 3, ...
RingCountingNext ==
    \/ RingPushLoadTail(NextTestValue)
    \/ RingPushCheck
    \/ RingPushWrite
    \/ RingPushStore
    \/ RingPopLoadHead
    \/ RingPopCheck
    \/ RingPopRead
    \/ RingPopStore

-----------------------------------------------------------------------------
(* SPSCRingBuffer: the queries, called by a monitoring thread *)

\* a bool as the result of a query
BoolStr(b) == IF b THEN "true" ELSE "false"

\* what the ring buffer's own variables are to a thread that only queries
ringShared == <<mHead, mTail, mBuffer, producerVars, consumerVars, pushed, popped>>

\* size(): size_t tail = mTail.load(acquire);
MonitorSizeLoadTail ==
    /\ inst = "ring"
    /\ RingFrame
    /\ mPc = "idle"
    /\ mOp' = "size"
    /\ mFirst' = mTail
    /\ mRet' = 0
    /\ mFlag' = "none"
    /\ mLo' = held
    /\ mHi' = held
    /\ mWasHeld' = FALSE
    /\ mPc' = "sizeHead"
    /\ UNCHANGED <<ringShared, drainVars>>

\* a variant of MonitorSizeLoadHead that subtracts tail from head
MonitorSizeLoadHeadSwapped ==
    /\ inst = "ring"
    /\ RingFrame
    /\ mPc = "sizeHead"
    /\ mRet' = SizeOf(mHead, mFirst)
    /\ mWasHeld' = (SizeOf(mHead, mFirst) \in mLo..mHi)
    /\ mLo' = 0
    /\ mHi' = 0
    /\ mPc' = "idle"
    /\ UNCHANGED <<ringShared, drainVars, mOp, mFirst, mFlag>>

\* size(): size_t head = mHead.load(acquire);
\*         return (tail - head + CAPACITY) & (CAPACITY - 1);
MonitorSizeLoadHead ==
    /\ inst = "ring"
    /\ RingFrame
    /\ mPc = "sizeHead"
    /\ mRet' = SizeOf(mFirst, mHead)
    /\ mWasHeld' = (SizeOf(mFirst, mHead) \in mLo..mHi)
    /\ mLo' = 0
    /\ mHi' = 0
    /\ mPc' = "idle"
    /\ UNCHANGED <<ringShared, drainVars, mOp, mFirst, mFlag>>

\* full(): size_t tail = mTail.load(acquire); next = (tail + 1) & (CAPACITY - 1);
MonitorFullLoadTail ==
    /\ inst = "ring"
    /\ RingFrame
    /\ mPc = "idle"
    /\ mOp' = "full"
    /\ mFirst' = mTail
    /\ mRet' = 0
    /\ mFlag' = "none"
    /\ mLo' = held
    /\ mHi' = held
    /\ mWasHeld' = FALSE
    /\ mPc' = "fullHead"
    /\ UNCHANGED <<ringShared, drainVars>>

\* full(): return next == mHead.load(acquire);
MonitorFullLoadHead ==
    /\ inst = "ring"
    /\ RingFrame
    /\ mPc = "fullHead"
    /\ mFlag' = BoolStr(NextIndex(mFirst) = mHead)
    /\ mWasHeld' = IF NextIndex(mFirst) = mHead THEN mHi = capacity
                   ELSE mLo < capacity
    /\ mLo' = 0
    /\ mHi' = 0
    /\ mPc' = "idle"
    /\ UNCHANGED <<ringShared, drainVars, mOp, mFirst, mRet>>

\* empty(): return mHead.load(acquire) == mTail.load(acquire);
\* the first of the two loads; the language leaves open which operand of ==
\* is evaluated first
MonitorEmptyLoadFirst ==
    /\ inst = "ring"
    /\ RingFrame
    /\ mPc = "idle"
    /\ mOp' = "empty"
    /\ \/ mFirst' = mHead /\ mPc' = "emptyTail"
       \/ mFirst' = mTail /\ mPc' = "emptyHead"
    /\ mRet' = 0
    /\ mFlag' = "none"
    /\ mLo' = held
    /\ mHi' = held
    /\ mWasHeld' = FALSE
    /\ UNCHANGED <<ringShared, drainVars>>

\* empty(): the second load and the comparison
MonitorEmptyLoadSecond ==
    /\ inst = "ring"
    /\ RingFrame
    /\ mPc \in {"emptyTail", "emptyHead"}
    /\ LET second == IF mPc = "emptyTail" THEN mTail ELSE mHead
       IN  /\ mFlag' = BoolStr(mFirst = second)
           /\ mWasHeld' = IF mFirst = second THEN mLo = 0 ELSE mHi > 0
    /\ mLo' = 0
    /\ mHi' = 0
    /\ mPc' = "idle"
    /\ UNCHANGED <<ringShared, drainVars, mOp, mFirst, mRet>>

\* capacity(): return CAPACITY - 1;
MonitorCapacity ==
    /\ inst = "ring"
    /\ RingFrame
    /\ mPc = "idle"
    /\ mOp' = "capacity"
    /\ mRet' = capacity
    /\ mFlag' = "none"
    /\ mWasHeld' = TRUE
    /\ UNCHANGED <<ringShared, drainVars, mPc, mFirst, mLo, mHi>>

\* producer and consumer with a third thread that calls the queries
RingMonitorNext ==
    \/ RingCountingNext
    \/ MonitorSizeLoadTail
    \/ MonitorSizeLoadHead
    \/ MonitorFullLoadTail
    \/ MonitorFullLoadHead
    \/ MonitorEmptyLoadFirst
    \/ MonitorEmptyLoadSecond
    \/ MonitorCapacity

-----------------------------------------------------------------------------
(* SPSCRingBuffer: the loop of the consumer in the tests,                    *)
(*   while (!producer_done.load(acquire) || !buffer.empty()) { pop ... }     *)

\* producer: producer_done.store(true, release), after its last push
ProducerDone ==
    /\ inst = "ring"
    /\ RingFrame
    /\ pPc = "idle"
    /\ ~pDone
    /\ pDone' = TRUE
    /\ UNCHANGED <<ringShared, monitorVars, cStop, cFirst>>

\* a variant of ConsumerSeesDone that calls empty() without looking at the flag
ConsumerSeesDoneUnchecked ==
    /\ inst = "ring"
    /\ RingFrame
    /\ cPc = "idle"
    /\ ~cStop
    /\ cPc' = "drain"
    /\ UNCHANGED <<mHead, mTail, mBuffer, producerVars, cHead, cItem, cRet,
                   cEntry, cSeen, pushed, popped, monitorVars, drainVars>>

\* consumer: producer_done.load(acquire) returns true, so that the loop
\* condition goes on to call empty(); while it returns false the body runs pop
ConsumerSeesDone ==
    /\ inst = "ring"
    /\ RingFrame
    /\ cPc = "idle"
    /\ ~cStop
    /\ pDone
    /\ cPc' = "drain"
    /\ UNCHANGED <<mHead, mTail, mBuffer, producerVars, cHead, cItem, cRet,
                   cEntry, cSeen, pushed, popped, monitorVars, drainVars>>

\* consumer: the first load of empty()
ConsumerEmptyLoadFirst ==
    /\ inst = "ring"
    /\ RingFrame
    /\ cPc = "drain"
    /\ \/ cFirst' = mHead /\ cPc' = "emptyTail"
       \/ cFirst' = mTail /\ cPc' = "emptyHead"
    /\ UNCHANGED <<mHead, mTail, mBuffer, producerVars, cHead, cItem, cRet,
                   cEntry, cSeen, pushed, popped, monitorVars, pDone, cStop>>

\* consumer: the second load of empty(); when empty() returns true the loop ends
ConsumerEmptyLoadSecond ==
    /\ inst = "ring"
    /\ RingFrame
    /\ cPc \in {"emptyTail", "emptyHead"}
    /\ cStop' = (cFirst = IF cPc = "emptyTail" THEN mTail ELSE mHead)
    /\ cPc' = "idle"
    /\ UNCHANGED <<mHead, mTail, mBuffer, producerVars, cHead, cItem, cRet,
                   cEntry, cSeen, pushed, popped, monitorVars, pDone, cFirst>>

\* producer and consumer as the tests run them
RingDrainNext ==
    \/ RingCountingNext
    \/ ProducerDone
    \/ ConsumerSeesDone
    \/ ConsumerEmptyLoadFirst
    \/ ConsumerEmptyLoadSecond

-----------------------------------------------------------------------------
(* SPSCRingBuffer<T, CAPACITY> for every CAPACITY the static_asserts accept: *)
(* the two indices under push and pop                                        *)

\* static_assert((CAPACITY & (CAPACITY - 1)) == 0); static_assert(CAPACITY >= 2);
DeclaredSizes == {n \in 2..(2 ^ MaxLogCapacity) : BitAnd(n, n - 1) = 0}

\* a variant of IndexAfter that reduces modulo CAPACITY - 1
IndexAfterModCapacity(i, n) == (i + 1) % (n - 1)

\* (i + 1) & (CAPACITY - 1) for a buffer declared with CAPACITY = n
IndexAfter(i, n) == BitAnd(i + 1, n - 1)

IndexInit ==
    /\ nCapacity = CAPACITY
    /\ nHead = 0
    /\ nTail = 0

\* push that returns true: next = (tail + 1) & (CAPACITY - 1);
\* if (next == mHead) return false; ...; mTail.store(next)
IndexPush ==
    /\ IndexAfter(nTail, nCapacity) # nHead
    /\ nTail' = IndexAfter(nTail, nCapacity)
    /\ UNCHANGED <<inst, rbVars, qVars, sVars, nCapacity, nHead>>

\* pop that returns true: if (head == mTail) return false; ...;
\* mHead.store((head + 1) & (CAPACITY - 1))
IndexPop ==
    /\ nHead # nTail
    /\ nHead' = IndexAfter(nHead, nCapacity)
    /\ UNCHANGED <<inst, rbVars, qVars, sVars, nCapacity, nTail>>

IndexNext == IndexPush \/ IndexPop

-----------------------------------------------------------------------------
(* MPSCQueue *)

\* nullptr
Null == 0

QNodes == 1..MaxQueueNodes

Producers == 1..NumProducers

\* the value of producer p's i-th push: as in the tests, every producer pushes
\* its own range of values in increasing order (producer_id * ITEMS + i)
QValue(p, i) == <<p, i>>

\* Node::data of a node constructed by `new Node()' and not yet assigned
QNoValue == <<Unwritten, Unwritten>>

QueueInit ==
    /\ \E dummy \in QNodes :
          /\ head_ = dummy
          /\ tail_ = dummy
          /\ qAlloc = {dummy}
    /\ qNext = [n \in QNodes |-> Null]
    /\ qData = [n \in QNodes |-> QNoValue]
    /\ qPc = [p \in Producers |-> "idle"]
    /\ qNode = [p \in Producers |-> Null]
    /\ qPrev = [p \in Producers |-> Null]
    /\ qRet = [p \in Producers |-> "none"]
    /\ kPc = "idle"
    /\ kNext = Null
    /\ kValue = QNoValue
    /\ kRet = "none"
    /\ kEntry = QNoValue
    /\ qFreedUse = FALSE
    /\ qCalled = [p \in Producers |-> <<>>]
    /\ qPushed = <<>>
    /\ qPopped = <<>>
    /\ qdPc = "live"
    /\ qdCurrent = Null

qProducerVars == <<qPc, qNode, qPrev, qRet>>
qConsumerVars == <<kPc, kNext, kValue, kRet, kEntry>>

\* number of push calls so far
QueueCalls == Len(qPushed) + Cardinality({p \in Producers : qPc[p] = "exchange"})

\* push(value): auto node = new Node(); node->data = value;
\*              node->next.store(nullptr, relaxed);
QueuePushNew(p) ==
    /\ inst = "queue"
    /\ QueueFrame
    /\ UNCHANGED qDtorVars
    /\ qPc[p] = "idle"
    /\ QueueCalls < MaxQueuePush
    /\ \E n \in QNodes \ qAlloc :
          /\ qAlloc' = qAlloc \cup {n}
          /\ qData' = [qData EXCEPT ![n] = QValue(p, Len(qCalled[p]) + 1)]
          /\ qNext' = [qNext EXCEPT ![n] = Null]
          /\ qNode' = [qNode EXCEPT ![p] = n]
    /\ qCalled' = [qCalled EXCEPT ![p] = Append(@, QValue(p, Len(@) + 1))]
    /\ qRet' = [qRet EXCEPT ![p] = "none"]
    /\ qPc' = [qPc EXCEPT ![p] = "exchange"]
    /\ UNCHANGED <<head_, tail_, qPrev, qConsumerVars, qFreedUse, qPushed, qPopped>>

\* a variant of QueuePushExchange that loads tail_ and does not replace it
QueuePushExchangeLoadOnly(p) ==
    /\ inst = "queue"
    /\ QueueFrame
    /\ UNCHANGED qDtorVars
    /\ qPc[p] = "exchange"
    /\ qPrev' = [qPrev EXCEPT ![p] = tail_]
    /\ qPushed' = Append(qPushed, qData[qNode[p]])
    /\ qPc' = [qPc EXCEPT ![p] = "link"]
    /\ UNCHANGED <<head_, tail_, qNext, qData, qAlloc, qNode, qRet, qConsumerVars,
                   qFreedUse, qCalled, qPopped>>

\* a variant of QueuePushExchange that waits while another producer is between
\* its exchange and its link
QueuePushExchangeWaits(p) ==
    /\ inst = "queue"
    /\ QueueFrame
    /\ UNCHANGED qDtorVars
    /\ qPc[p] = "exchange"
    /\ \A q \in Producers \ {p} : qPc[q] # "link"
    /\ qPrev' = [qPrev EXCEPT ![p] = tail_]
    /\ tail_' = qNode[p]
    /\ qPushed' = Append(qPushed, qData[qNode[p]])
    /\ qPc' = [qPc EXCEPT ![p] = "link"]
    /\ UNCHANGED <<head_, qNext, qData, qAlloc, qNode, qRet, qConsumerVars,
                   qFreedUse, qCalled, qPopped>>

\* a variant of QueuePushExchange that also stores the link in the same step
QueuePushExchangeLinks(p) ==
    /\ inst = "queue"
    /\ QueueFrame
    /\ UNCHANGED qDtorVars
    /\ qPc[p] = "exchange"
    /\ qPrev' = [qPrev EXCEPT ![p] = tail_]
    /\ tail_' = qNode[p]
    /\ qNext' = [qNext EXCEPT ![tail_] = qNode[p]]
    /\ qPushed' = Append(qPushed, qData[qNode[p]])
    /\ qPc' = [qPc EXCEPT ![p] = "link"]
    /\ UNCHANGED <<head_, qData, qAlloc, qNode, qRet, qConsumerVars,
                   qFreedUse, qCalled, qPopped>>

\* push_node: auto prev = tail_.exchange(node, acq_rel);
QueuePushExchange(p) ==
    /\ inst = "queue"
    /\ QueueFrame
    /\ UNCHANGED qDtorVars
    /\ qPc[p] = "exchange"
    /\ qPrev' = [qPrev EXCEPT ![p] = tail_]
    /\ tail_' = qNode[p]
    /\ qPushed' = Append(qPushed, qData[qNode[p]])
    /\ qPc' = [qPc EXCEPT ![p] = "link"]
    /\ UNCHANGED <<head_, qNext, qData, qAlloc, qNode, qRet, qConsumerVars,
                   qFreedUse, qCalled, qPopped>>

\* a variant of QueuePushLink that returns without storing the link
QueuePushLinkSkips(p) ==
    /\ inst = "queue"
    /\ QueueFrame
    /\ UNCHANGED qDtorVars
    /\ qPc[p] = "link"
    /\ qRet' = [qRet EXCEPT ![p] = "true"]
    /\ qPc' = [qPc EXCEPT ![p] = "idle"]
    /\ UNCHANGED <<head_, tail_, qNext, qData, qAlloc, qNode, qPrev, qConsumerVars,
                   qFreedUse, qCalled, qPushed, qPopped>>

\* push_node: prev->next.store(node, release); return true;
QueuePushLink(p) ==
    /\ inst = "queue"
    /\ QueueFrame
    /\ UNCHANGED qDtorVars
    /\ qPc[p] = "link"
    /\ qNext' = [qNext EXCEPT ![qPrev[p]] = qNode[p]]
    /\ qFreedUse' = (qFreedUse \/ qPrev[p] \notin qAlloc)
    /\ qRet' = [qRet EXCEPT ![p] = "true"]
    /\ qPc' = [qPc EXCEPT ![p] = "idle"]
    /\ UNCHANGED <<head_, tail_, qData, qAlloc, qNode, qPrev, qConsumerVars,
                   qCalled, qPushed, qPopped>>

\* a variant of QueuePopLoadNext that clears the output argument first
QueuePopLoadNextClearsValue ==
    /\ inst = "queue"
    /\ QueueFrame
    /\ UNCHANGED qDtorVars
    /\ kPc = "idle"
    /\ kEntry' = kValue
    /\ kValue' = QNoValue
    /\ kNext' = qNext[head_]
    /\ qFreedUse' = (qFreedUse \/ head_ \notin qAlloc)
    /\ IF qNext[head_] = Null
       THEN /\ kRet' = "false"
            /\ kPc' = "idle"
       ELSE /\ kRet' = "none"
            /\ kPc' = "move"
    /\ UNCHANGED <<head_, tail_, qNext, qData, qAlloc, qProducerVars,
                   qCalled, qPushed, qPopped>>

\* a variant of QueuePopLoadNext that loads the link of tail_ instead of head_
QueuePopLoadNextOfTail ==
    /\ inst = "queue"
    /\ QueueFrame
    /\ UNCHANGED qDtorVars
    /\ kPc = "idle"
    /\ kEntry' = kValue
    /\ kNext' = qNext[tail_]
    /\ qFreedUse' = (qFreedUse \/ tail_ \notin qAlloc)
    /\ IF qNext[tail_] = Null
       THEN /\ kRet' = "false"
            /\ kPc' = "idle"
       ELSE /\ kRet' = "none"
            /\ kPc' = "move"
    /\ UNCHANGED <<head_, tail_, qNext, qData, qAlloc, qProducerVars, kValue,
                   qCalled, qPushed, qPopped>>

\* pop(value): auto next = head_->next.load(acquire); if (!next) return false;
QueuePopLoadNext ==
    /\ inst = "queue"
    /\ QueueFrame
    /\ UNCHANGED qDtorVars
    /\ kPc = "idle"
    /\ kEntry' = kValue
    /\ kNext' = qNext[head_]
    /\ qFreedUse' = (qFreedUse \/ head_ \notin qAlloc)
    /\ IF qNext[head_] = Null
       THEN /\ kRet' = "false"
            /\ kPc' = "idle"
       ELSE /\ kRet' = "none"
            /\ kPc' = "move"
    /\ UNCHANGED <<head_, tail_, qNext, qData, qAlloc, qProducerVars, kValue,
                   qCalled, qPushed, qPopped>>

\* a variant of QueuePopMove that takes the data of the sentinel head_
QueuePopMoveSentinel ==
    /\ inst = "queue"
    /\ QueueFrame
    /\ UNCHANGED qDtorVars
    /\ kPc = "move"
    /\ kValue' = qData[head_]
    /\ qFreedUse' = (qFreedUse \/ kNext \notin qAlloc)
    /\ kPc' = "advance"
    /\ UNCHANGED <<head_, tail_, qNext, qData, qAlloc, qProducerVars, kNext,
                   kRet, kEntry, qCalled, qPushed, qPopped>>

\* value = std::move(next->data);   (T is int in the tests: data keeps its value)
QueuePopMove ==
    /\ inst = "queue"
    /\ QueueFrame
    /\ UNCHANGED qDtorVars
    /\ kPc = "move"
    /\ kValue' = qData[kNext]
    /\ qFreedUse' = (qFreedUse \/ kNext \notin qAlloc)
    /\ kPc' = "advance"
    /\ UNCHANGED <<head_, tail_, qNext, qData, qAlloc, qProducerVars, kNext,
                   kRet, kEntry, qCalled, qPushed, qPopped>>

\* a variant of QueuePopAdvance that does not delete the old sentinel
QueuePopAdvanceLeaks ==
    /\ inst = "queue"
    /\ QueueFrame
    /\ UNCHANGED qDtorVars
    /\ kPc = "advance"
    /\ qAlloc' = qAlloc
    /\ qNext' = [qNext EXCEPT ![head_] = Null]
    /\ qData' = [qData EXCEPT ![head_] = QNoValue]
    /\ head_' = kNext
    /\ qPopped' = Append(qPopped, kValue)
    /\ kRet' = "true"
    /\ kPc' = "idle"
    /\ UNCHANGED <<tail_, qProducerVars, kNext, kValue, kEntry, qFreedUse,
                   qCalled, qPushed>>

\* a variant of QueuePopAdvance that deletes the node whose value it returns
QueuePopAdvanceDeletesNext ==
    /\ inst = "queue"
    /\ QueueFrame
    /\ UNCHANGED qDtorVars
    /\ kPc = "advance"
    /\ qAlloc' = qAlloc \ {kNext}
    /\ qNext' = [qNext EXCEPT ![kNext] = Null]
    /\ qData' = [qData EXCEPT ![kNext] = QNoValue]
    /\ head_' = kNext
    /\ qPopped' = Append(qPopped, kValue)
    /\ kRet' = "true"
    /\ kPc' = "idle"
    /\ UNCHANGED <<tail_, qProducerVars, kNext, kValue, kEntry, qFreedUse,
                   qCalled, qPushed>>

\* delete head_; head_ = next; return true;
QueuePopAdvance ==
    /\ inst = "queue"
    /\ QueueFrame
    /\ UNCHANGED qDtorVars
    /\ kPc = "advance"
    /\ qAlloc' = qAlloc \ {head_}
    /\ qNext' = [qNext EXCEPT ![head_] = Null]
    /\ qData' = [qData EXCEPT ![head_] = QNoValue]
    /\ head_' = kNext
    /\ qPopped' = Append(qPopped, kValue)
    /\ kRet' = "true"
    /\ kPc' = "idle"
    /\ UNCHANGED <<tail_, qProducerVars, kNext, kValue, kEntry, qFreedUse,
                   qCalled, qPushed>>

\* a variant of QueueEmpty that looks at the node tail_ points to
QueueEmptyOfTail == qNext[tail_] = Null

\* empty(): return head_->next.load(acquire) == nullptr;
QueueEmpty == qNext[head_] = Null

QueueNext ==
    \/ \E p \in Producers : QueuePushNew(p)
    \/ \E p \in Producers : QueuePushExchange(p)
    \/ \E p \in Producers : QueuePushLink(p)
    \/ QueuePopLoadNext
    \/ QueuePopMove
    \/ QueuePopAdvance

\* the other containers and the state of push and pop, which ~MPSCQueue leaves
QueueDtorFrame ==
    UNCHANGED <<inst, rbVars, sVars, ixVars, head_, tail_, qProducerVars,
                qConsumerVars, qFreedUse, qCalled, qPushed, qPopped>>

\* ~MPSCQueue, called when no producer and no consumer is running:
\* auto current = head_;
QueueDtorStart ==
    /\ inst = "queue"
    /\ qdPc = "live"
    /\ \A p \in Producers : qPc[p] = "idle"
    /\ kPc = "idle"
    /\ qdCurrent' = head_
    /\ qdPc' = "walk"
    /\ UNCHANGED <<qNext, qData, qAlloc>>
    /\ QueueDtorFrame

\* while (current) { auto tmp = current->next.load(relaxed); delete current;
\*                   current = tmp; }
QueueDtorStep ==
    /\ inst = "queue"
    /\ qdPc = "walk"
    /\ qdCurrent # Null
    /\ qdCurrent' = qNext[qdCurrent]
    /\ qAlloc' = qAlloc \ {qdCurrent}
    /\ qNext' = [qNext EXCEPT ![qdCurrent] = Null]
    /\ qData' = [qData EXCEPT ![qdCurrent] = QNoValue]
    /\ UNCHANGED qdPc
    /\ QueueDtorFrame

\* the loop of ~MPSCQueue ends: current is null
QueueDtorEnd ==
    /\ inst = "queue"
    /\ qdPc = "walk"
    /\ qdCurrent = Null
    /\ qdPc' = "done"
    /\ UNCHANGED <<qdCurrent, qNext, qData, qAlloc>>
    /\ QueueDtorFrame

\* the threads use the queue, and then it is destroyed
QueueDtorNext ==
    \/ qdPc = "live" /\ QueueNext
    \/ QueueDtorStart
    \/ QueueDtorStep
    \/ QueueDtorEnd

-----------------------------------------------------------------------------
(* LockFreeStack *)

SNodes == 1..MaxStackNodes

Threads == {"t1", "t2"}

\* TaggedPtr{ptr, counter}
TaggedPtr(ptr, counter) == [ptr |-> ptr, counter |-> counter]

\* a variant of CasMatches that compares the pointers and not the counters
CasMatchesPtrOnly(current, expected) == current.ptr = expected.ptr

\* compare_exchange_weak(head, newNode): head is the expected value
CasMatches(current, expected) == current = expected

\* a thread's local `head' outside a call
NoHead == TaggedPtr(Null, 0)

RECURSIVE Total(_, _)
\* the sum of count[v] over the values v of S
Total(count, S) ==
    IF S = {} THEN 0
    ELSE LET v == CHOOSE x \in S : TRUE
         IN  count[v] + Total(count, S \ {v})


StackInit ==
    /\ sHead = TaggedPtr(Null, 0)
    /\ mSize = 0
    /\ sNext = [n \in SNodes |-> Null]
    /\ sData = [n \in SNodes |-> Unwritten]
    /\ sAlloc = {}
    /\ tPc = [t \in Threads |-> "idle"]
    /\ tNode = [t \in Threads |-> Null]
    /\ tHead = [t \in Threads |-> NoHead]
    /\ tNew = [t \in Threads |-> Null]
    /\ tValue = [t \in Threads |-> Unwritten]
    /\ tRet = [t \in Threads |-> "none"]
    /\ tEntry = [t \in Threads |-> Unwritten]
    /\ sFreedUse = FALSE
    /\ sAbs = <<>>
    /\ sPushCount = [v \in 1..MaxStackPush |-> 0]
    /\ sPopCount = [v \in 1..MaxStackPush |-> 0]
    /\ sUpdates = 0
    /\ tSeen = [t \in Threads |-> 0]
    /\ tTop = [t \in Threads |-> Unwritten]
    /\ sdPc = "live"
    /\ sdHead = Null

\* number of push calls so far
StackCalls ==
    Total(sPushCount, 1..MaxStackPush)
    + Cardinality({t \in Threads : tPc[t] \in {"pushLoad", "pushCas"}})

\* the values pushed on the stack: as in the tests, the i-th call of push
\* passes the value i
StackValues == 1..MaxStackPush

\* push(value): push_node(new Node(value));
StackPushNew(t) ==
    /\ inst = "stack"
    /\ StackFrame
    /\ UNCHANGED sDtorVars
    /\ tPc[t] = "idle"
    /\ StackCalls < MaxStackPush
    /\ \E n \in SNodes \ sAlloc :
          /\ sAlloc' = sAlloc \cup {n}
          /\ sData' = [sData EXCEPT ![n] = StackCalls + 1]
          /\ sNext' = [sNext EXCEPT ![n] = Null]
          /\ tNode' = [tNode EXCEPT ![t] = n]
    /\ tRet' = [tRet EXCEPT ![t] = "none"]
    /\ tPc' = [tPc EXCEPT ![t] = "pushLoad"]
    /\ UNCHANGED <<sHead, mSize, tHead, tNew, tValue, tEntry, sFreedUse,
                   sAbs, sPushCount, sPopCount, sUpdates, tSeen, tTop>>

\* push_node: auto head = mHead.load(acquire);
StackPushLoad(t) ==
    /\ inst = "stack"
    /\ StackFrame
    /\ UNCHANGED sDtorVars
    /\ tPc[t] = "pushLoad"
    /\ tHead' = [tHead EXCEPT ![t] = sHead]
    /\ tSeen' = [tSeen EXCEPT ![t] = sUpdates]
    /\ tPc' = [tPc EXCEPT ![t] = "pushCas"]
    /\ UNCHANGED <<sHead, mSize, sNext, sData, sAlloc, tNode, tNew, tValue,
                   tRet, tEntry, sFreedUse, sAbs, sPushCount, sPopCount,
                   sUpdates, tTop>>

\* a variant of StackPushCas that does not link the node to the old head
StackPushCasNoLink(t) ==
    /\ inst = "stack"
    /\ StackFrame
    /\ UNCHANGED sDtorVars
    /\ tPc[t] = "pushCas"
    /\ \/ /\ CasMatches(sHead, tHead[t])
          /\ sHead' = TaggedPtr(tNode[t], tHead[t].counter + 1)
          /\ sAbs' = Append(sAbs, sData[tNode[t]])
          /\ sPushCount' = [sPushCount EXCEPT ![sData[tNode[t]]] = @ + 1]
          /\ sUpdates' = sUpdates + 1
          /\ tPc' = [tPc EXCEPT ![t] = "pushSize"]
          /\ UNCHANGED <<tHead, tSeen>>
       \/ /\ tHead' = [tHead EXCEPT ![t] = sHead]
          /\ tSeen' = [tSeen EXCEPT ![t] = sUpdates]
          /\ UNCHANGED <<sHead, sAbs, sPushCount, sUpdates, tPc>>
    /\ UNCHANGED <<mSize, sNext, sData, sAlloc, tNode, tNew, tValue, tRet, tEntry,
                   sFreedUse, sPopCount, tTop>>

\* push_node: node->next = head.ptr; TaggedPtr newNode{node, head.counter + 1};
\*            if (mHead.compare_exchange_weak(head, newNode, ...))
\* A failed exchange loads mHead into head; a weak exchange may also fail
\* although mHead equals head.
StackPushCas(t) ==
    /\ inst = "stack"
    /\ StackFrame
    /\ UNCHANGED sDtorVars
    /\ tPc[t] = "pushCas"
    /\ sNext' = [sNext EXCEPT ![tNode[t]] = tHead[t].ptr]
    /\ \/ /\ CasMatches(sHead, tHead[t])
          /\ sHead' = TaggedPtr(tNode[t], tHead[t].counter + 1)
          /\ sAbs' = Append(sAbs, sData[tNode[t]])
          /\ sPushCount' = [sPushCount EXCEPT ![sData[tNode[t]]] = @ + 1]
          /\ sUpdates' = sUpdates + 1
          /\ tPc' = [tPc EXCEPT ![t] = "pushSize"]
          /\ UNCHANGED <<tHead, tSeen>>
       \/ /\ tHead' = [tHead EXCEPT ![t] = sHead]
          /\ tSeen' = [tSeen EXCEPT ![t] = sUpdates]
          /\ UNCHANGED <<sHead, sAbs, sPushCount, sUpdates, tPc>>
    /\ UNCHANGED <<mSize, sData, sAlloc, tNode, tNew, tValue, tRet, tEntry,
                   sFreedUse, sPopCount, tTop>>

\* push_node: mSize.fetch_add(1, relaxed); return;
StackPushSize(t) ==
    /\ inst = "stack"
    /\ StackFrame
    /\ UNCHANGED sDtorVars
    /\ tPc[t] = "pushSize"
    /\ mSize' = mSize + 1
    /\ tPc' = [tPc EXCEPT ![t] = "idle"]
    /\ tNode' = [tNode EXCEPT ![t] = Null]
    /\ tHead' = [tHead EXCEPT ![t] = NoHead]
    /\ tSeen' = [tSeen EXCEPT ![t] = 0]
    /\ UNCHANGED <<sHead, sNext, sData, sAlloc, tNew, tValue,
                   tRet, tEntry, sFreedUse, sAbs, sPushCount, sPopCount,
                   sUpdates, tTop>>

\* a variant of StackPopSeen that also reports empty when one node is left
StackPopSeenNextNull(t, head) ==
    /\ tNew' = [tNew EXCEPT ![t] = Null]
    /\ IF head.ptr = Null \/ sNext[head.ptr] = Null
       THEN /\ tRet' = [tRet EXCEPT ![t] = "false"]
            /\ tPc' = [tPc EXCEPT ![t] = "idle"]
            /\ tHead' = [tHead EXCEPT ![t] = NoHead]
            /\ tSeen' = [tSeen EXCEPT ![t] = 0]
       ELSE /\ tRet' = [tRet EXCEPT ![t] = "none"]
            /\ tPc' = [tPc EXCEPT ![t] = "popRead"]
            /\ tHead' = [tHead EXCEPT ![t] = head]
            /\ tSeen' = [tSeen EXCEPT ![t] = sUpdates]

\* what pop does with the value of mHead it has just read into head:
\* if (!head.ptr) return false;
StackPopSeen(t, head) ==
    /\ tNew' = [tNew EXCEPT ![t] = Null]
    /\ IF head.ptr = Null
       THEN /\ tRet' = [tRet EXCEPT ![t] = "false"]
            /\ tPc' = [tPc EXCEPT ![t] = "idle"]
            /\ tHead' = [tHead EXCEPT ![t] = NoHead]
            /\ tSeen' = [tSeen EXCEPT ![t] = 0]
       ELSE /\ tRet' = [tRet EXCEPT ![t] = "none"]
            /\ tPc' = [tPc EXCEPT ![t] = "popRead"]
            /\ tHead' = [tHead EXCEPT ![t] = head]
            /\ tSeen' = [tSeen EXCEPT ![t] = sUpdates]

\* pop(value): auto head = mHead.load(acquire); if (!head.ptr) return false;
StackPopLoad(t) ==
    /\ inst = "stack"
    /\ StackFrame
    /\ UNCHANGED sDtorVars
    /\ tPc[t] = "idle"
    /\ tEntry' = [tEntry EXCEPT ![t] = tValue[t]]
    /\ StackPopSeen(t, sHead)
    /\ UNCHANGED <<sHead, mSize, sNext, sData, sAlloc, tNode, tValue,
                   sFreedUse, sAbs, sPushCount, sPopCount, sUpdates, tTop>>

\* node n is allocated and not the node a push is still preparing
Published(n) ==
    /\ n \in sAlloc
    /\ \A u \in Threads : ~(tPc[u] \in {"pushLoad", "pushCas"} /\ tNode[u] = n)

\* pop: TaggedPtr newNode{head.ptr->next, head.counter + 1};
\* head.ptr may have been deleted by another thread's pop since head was read,
\* and the address handed out again to a push that is writing node->next: the
\* read of its next field then yields any pointer value.
StackPopRead(t) ==
    /\ inst = "stack"
    /\ StackFrame
    /\ UNCHANGED sDtorVars
    /\ tPc[t] = "popRead"
    /\ IF Published(tHead[t].ptr)
       THEN /\ tNew' = [tNew EXCEPT ![t] = sNext[tHead[t].ptr]]
            /\ UNCHANGED sFreedUse
       ELSE /\ \E x \in SNodes \cup {Null} : tNew' = [tNew EXCEPT ![t] = x]
            /\ sFreedUse' = TRUE
    /\ tPc' = [tPc EXCEPT ![t] = "popCas"]
    /\ UNCHANGED <<sHead, mSize, sNext, sData, sAlloc, tNode, tHead, tValue,
                   tRet, tEntry, sAbs, sPushCount, sPopCount, sUpdates, tSeen, tTop>>

\* a variant of StackPopCas whose new head keeps the counter of the old head
StackPopCasKeepsCounter(t) ==
    /\ inst = "stack"
    /\ StackFrame
    /\ UNCHANGED sDtorVars
    /\ tPc[t] = "popCas"
    /\ \/ /\ CasMatches(sHead, tHead[t])
          /\ sHead' = TaggedPtr(tNew[t], tHead[t].counter)
          /\ sAbs' = IF sAbs = <<>> THEN sAbs ELSE SubSeq(sAbs, 1, Len(sAbs) - 1)
          /\ tTop' = [tTop EXCEPT ![t] = IF sAbs = <<>> THEN Unwritten
                                         ELSE sAbs[Len(sAbs)]]
          /\ sUpdates' = sUpdates + 1
          /\ tPc' = [tPc EXCEPT ![t] = "popMove"]
          /\ UNCHANGED <<tHead, tNew, tRet, tSeen>>
       \/ /\ StackPopSeen(t, sHead)
          /\ UNCHANGED <<sHead, sAbs, sUpdates, tTop>>
    /\ UNCHANGED <<mSize, sNext, sData, sAlloc, tNode, tValue, tEntry,
                   sFreedUse, sPushCount, sPopCount>>

\* a variant of StackPopCas whose failed exchange leaves head as it was
StackPopCasNoReload(t) ==
    /\ inst = "stack"
    /\ StackFrame
    /\ UNCHANGED sDtorVars
    /\ tPc[t] = "popCas"
    /\ \/ /\ CasMatches(sHead, tHead[t])
          /\ sHead' = TaggedPtr(tNew[t], tHead[t].counter + 1)
          /\ sAbs' = IF sAbs = <<>> THEN sAbs ELSE SubSeq(sAbs, 1, Len(sAbs) - 1)
          /\ tTop' = [tTop EXCEPT ![t] = IF sAbs = <<>> THEN Unwritten
                                         ELSE sAbs[Len(sAbs)]]
          /\ sUpdates' = sUpdates + 1
          /\ tPc' = [tPc EXCEPT ![t] = "popMove"]
          /\ UNCHANGED <<tHead, tNew, tRet, tSeen>>
       \/ /\ tNew' = [tNew EXCEPT ![t] = Null]
          /\ tPc' = [tPc EXCEPT ![t] = "popRead"]
          /\ UNCHANGED <<sHead, sAbs, sUpdates, tTop, tHead, tRet, tSeen>>
    /\ UNCHANGED <<mSize, sNext, sData, sAlloc, tNode, tValue, tEntry,
                   sFreedUse, sPushCount, sPopCount>>

\* pop: if (mHead.compare_exchange_weak(head, newNode, ...))
\* A failed exchange loads mHead into head and the loop tests head.ptr again.
StackPopCas(t) ==
    /\ inst = "stack"
    /\ StackFrame
    /\ UNCHANGED sDtorVars
    /\ tPc[t] = "popCas"
    /\ \/ /\ CasMatches(sHead, tHead[t])
          /\ sHead' = TaggedPtr(tNew[t], tHead[t].counter + 1)
          /\ sAbs' = IF sAbs = <<>> THEN sAbs ELSE SubSeq(sAbs, 1, Len(sAbs) - 1)
          /\ tTop' = [tTop EXCEPT ![t] = IF sAbs = <<>> THEN Unwritten
                                         ELSE sAbs[Len(sAbs)]]
          /\ sUpdates' = sUpdates + 1
          /\ tPc' = [tPc EXCEPT ![t] = "popMove"]
          /\ UNCHANGED <<tHead, tNew, tRet, tSeen>>
       \/ /\ StackPopSeen(t, sHead)
          /\ UNCHANGED <<sHead, sAbs, sUpdates, tTop>>
    /\ UNCHANGED <<mSize, sNext, sData, sAlloc, tNode, tValue, tEntry,
                   sFreedUse, sPushCount, sPopCount>>

\* a variant of StackPopMove that takes the data of the node below the popped one
StackPopMoveOfNew(t) ==
    /\ inst = "stack"
    /\ StackFrame
    /\ UNCHANGED sDtorVars
    /\ tPc[t] = "popMove"
    /\ IF tHead[t].ptr \in sAlloc
       THEN /\ tValue' = [tValue EXCEPT ![t] = IF tNew[t] = Null THEN Unwritten
                                                 ELSE sData[tNew[t]]]
            /\ UNCHANGED sFreedUse
       ELSE /\ \E x \in StackValues \cup {Unwritten} :
                  tValue' = [tValue EXCEPT ![t] = x]
            /\ sFreedUse' = TRUE
    /\ sAlloc' = sAlloc \ {tHead[t].ptr}
    /\ sNext' = [n \in SNodes |-> IF n = tHead[t].ptr THEN Null ELSE sNext[n]]
    /\ sData' = [n \in SNodes |-> IF n = tHead[t].ptr THEN Unwritten ELSE sData[n]]
    /\ tPc' = [tPc EXCEPT ![t] = "popSize"]
    /\ UNCHANGED <<sHead, mSize, tNode, tHead, tNew, tRet, tEntry, sAbs,
                   sPushCount, sPopCount, sUpdates, tSeen, tTop>>

\* pop: value = std::move(head.ptr->data); delete head.ptr;
StackPopMove(t) ==
    /\ inst = "stack"
    /\ StackFrame
    /\ UNCHANGED sDtorVars
    /\ tPc[t] = "popMove"
    /\ IF tHead[t].ptr \in sAlloc
       THEN /\ tValue' = [tValue EXCEPT ![t] = sData[tHead[t].ptr]]
            /\ UNCHANGED sFreedUse
       ELSE /\ \E x \in StackValues \cup {Unwritten} :
                  tValue' = [tValue EXCEPT ![t] = x]
            /\ sFreedUse' = TRUE
    /\ sAlloc' = sAlloc \ {tHead[t].ptr}
    /\ sNext' = [n \in SNodes |-> IF n = tHead[t].ptr THEN Null ELSE sNext[n]]
    /\ sData' = [n \in SNodes |-> IF n = tHead[t].ptr THEN Unwritten ELSE sData[n]]
    /\ tPc' = [tPc EXCEPT ![t] = "popSize"]
    /\ UNCHANGED <<sHead, mSize, tNode, tHead, tNew, tRet, tEntry, sAbs,
                   sPushCount, sPopCount, sUpdates, tSeen, tTop>>

\* a variant of StackPopSize that returns without the fetch_sub
StackPopSizeSkips(t) ==
    /\ inst = "stack"
    /\ StackFrame
    /\ UNCHANGED sDtorVars
    /\ tPc[t] = "popSize"
    /\ mSize' = mSize
    /\ sPopCount' = IF tValue[t] \in StackValues
                    THEN [sPopCount EXCEPT ![tValue[t]] = @ + 1]
                    ELSE sPopCount
    /\ tRet' = [tRet EXCEPT ![t] = "true"]
    /\ tPc' = [tPc EXCEPT ![t] = "idle"]
    /\ tHead' = [tHead EXCEPT ![t] = NoHead]
    /\ tNew' = [tNew EXCEPT ![t] = Null]
    /\ tEntry' = [tEntry EXCEPT ![t] = Unwritten]
    /\ tSeen' = [tSeen EXCEPT ![t] = 0]
    /\ tTop' = [tTop EXCEPT ![t] = Unwritten]
    /\ UNCHANGED <<sHead, sNext, sData, sAlloc, tNode, tValue,
                   sFreedUse, sAbs, sPushCount, sUpdates>>

\* pop: mSize.fetch_sub(1, relaxed); return true;
StackPopSize(t) ==
    /\ inst = "stack"
    /\ StackFrame
    /\ UNCHANGED sDtorVars
    /\ tPc[t] = "popSize"
    /\ mSize' = mSize - 1
    /\ sPopCount' = IF tValue[t] \in StackValues
                    THEN [sPopCount EXCEPT ![tValue[t]] = @ + 1]
                    ELSE sPopCount
    /\ tRet' = [tRet EXCEPT ![t] = "true"]
    /\ tPc' = [tPc EXCEPT ![t] = "idle"]
    /\ tHead' = [tHead EXCEPT ![t] = NoHead]
    /\ tNew' = [tNew EXCEPT ![t] = Null]
    /\ tEntry' = [tEntry EXCEPT ![t] = Unwritten]
    /\ tSeen' = [tSeen EXCEPT ![t] = 0]
    /\ tTop' = [tTop EXCEPT ![t] = Unwritten]
    /\ UNCHANGED <<sHead, sNext, sData, sAlloc, tNode, tValue,
                   sFreedUse, sAbs, sPushCount, sUpdates>>

\* one step of thread t
StackStep(t) ==
    \/ StackPushNew(t)
    \/ StackPushLoad(t)
    \/ StackPushCas(t)
    \/ StackPushSize(t)
    \/ StackPopLoad(t)
    \/ StackPopRead(t)
    \/ StackPopCas(t)
    \/ StackPopMove(t)
    \/ StackPopSize(t)

StackNext == \E t \in Threads : StackStep(t)

\* size_t counts modulo 2^64; the integers of the model checker have 32 bits,
\* so that the counter of the model wraps at 2^30
SizeModulus == 2 ^ 30

\* size(): return mSize.load(acquire);
sSize == mSize % SizeModulus

\* empty(): return mSize.load(acquire) == 0;
sEmpty == sSize = 0

\* a step of thread t inside a call of push or pop
StackInCall(t) ==
    \/ StackPushLoad(t)
    \/ StackPushCas(t)
    \/ StackPushSize(t)
    \/ StackPopRead(t)
    \/ StackPopCas(t)
    \/ StackPopMove(t)
    \/ StackPopSize(t)

\* a compare_exchange_weak of thread t that succeeds
StackCasWins(t) ==
    \/ StackPushCas(t) /\ tPc'[t] = "pushSize"
    \/ StackPopCas(t) /\ tPc'[t] = "popMove"

\* a step of the stack in a program that calls push MaxLivePush times
StackLiveNext ==
    \E t \in Threads :
        \/ StackCalls < MaxLivePush /\ StackPushNew(t)
        \/ StackPushLoad(t)
        \/ StackPushCas(t)
        \/ StackPushSize(t)
        \/ StackPopLoad(t)
        \/ StackPopRead(t)
        \/ StackPopCas(t)
        \/ StackPopMove(t)
        \/ StackPopSize(t)

\* the other containers and the state of push and pop, which ~LockFreeStack
\* leaves
StackDtorFrame ==
    UNCHANGED <<inst, rbVars, qVars, ixVars, sHead, mSize, tPc, tNode, tHead,
                tNew, tValue, tRet, tEntry, sFreedUse, sAbs, sPushCount,
                sPopCount, sUpdates, tSeen, tTop>>

\* ~LockFreeStack, called when no other thread is accessing the stack:
\* auto head = mHead.load(relaxed).ptr;
StackDtorStart ==
    /\ inst = "stack"
    /\ sdPc = "live"
    /\ \A t \in Threads : tPc[t] = "idle"
    /\ sdHead' = sHead.ptr
    /\ sdPc' = "walk"
    /\ UNCHANGED <<sNext, sData, sAlloc>>
    /\ StackDtorFrame

\* while (head) { auto next = head->next; delete head; head = next; }
StackDtorStep ==
    /\ inst = "stack"
    /\ sdPc = "walk"
    /\ sdHead # Null
    /\ sdHead' = sNext[sdHead]
    /\ sAlloc' = sAlloc \ {sdHead}
    /\ sNext' = [n \in SNodes |-> IF n = sdHead THEN Null ELSE sNext[n]]
    /\ sData' = [n \in SNodes |-> IF n = sdHead THEN Unwritten ELSE sData[n]]
    /\ UNCHANGED sdPc
    /\ StackDtorFrame

\* the loop of ~LockFreeStack ends: head is null
StackDtorEnd ==
    /\ inst = "stack"
    /\ sdPc = "walk"
    /\ sdHead = Null
    /\ sdPc' = "done"
    /\ UNCHANGED <<sdHead, sNext, sData, sAlloc>>
    /\ StackDtorFrame

\* the threads use the stack, and then it is destroyed
StackDtorNext ==
    \/ sdPc = "live" /\ StackLiveNext
    \/ StackDtorStart
    \/ StackDtorStep
    \/ StackDtorEnd

\* no thread other than t is inside a call
OneAtATime(t) == \A u \in Threads \ {t} : tPc[u] = "idle"

\* a step of the stack when the callers let no two operations overlap
StackSeqNext ==
    \E t \in Threads :
        \/ OneAtATime(t) /\ StackPushNew(t)
        \/ OneAtATime(t) /\ StackPushLoad(t)
        \/ OneAtATime(t) /\ StackPushCas(t)
        \/ OneAtATime(t) /\ StackPushSize(t)
        \/ OneAtATime(t) /\ StackPopLoad(t)
        \/ OneAtATime(t) /\ StackPopRead(t)
        \/ OneAtATime(t) /\ StackPopCas(t)
        \/ OneAtATime(t) /\ StackPopMove(t)
        \/ OneAtATime(t) /\ StackPopSize(t)

-----------------------------------------------------------------------------
(* Specifications *)

Init ==
    /\ inst \in {"ring", "queue", "stack"}
    /\ RingInit
    /\ QueueInit
    /\ StackInit
    /\ IndexInit

Next ==
    \/ RingNext
    \/ QueueNext
    \/ StackNext

\* a program that constructs one of the three containers and runs its threads
Spec == Init /\ [][Next]_vars

\* a step of a program that uses its container as the tests do: the producer
\* of the ring buffer pushes 1, 2, 3, ... and the stack is pushed MaxLivePush
\* times
TestsNext ==
    \/ RingCountingNext
    \/ QueueNext
    \/ StackLiveNext

TestsSpec == Init /\ [][TestsNext]_vars

\* one producer and one consumer on a ring buffer
RingStart == Init /\ inst = "ring"

RingSpec == RingStart /\ [][RingNext]_vars

\* producer, consumer and a monitoring thread on a ring buffer
RingMonitorSpec == RingStart /\ [][RingMonitorNext]_vars

\* producer and consumer on a ring buffer until the producer is done and the
\* consumer has seen the buffer empty
RingDrainSpec == RingStart /\ [][RingDrainNext]_vars

\* several producers and one consumer on a queue
QueueStart == Init /\ inst = "queue"

QueueSpec == QueueStart /\ [][QueueNext]_vars

\* the scheduler lets every producer that has allocated its node finish its
\* push, and the consumer calls pop again and again and finishes every pop
QueueFairness ==
    /\ \A p \in Producers :
          WF_vars(QueuePushExchange(p)) /\ WF_vars(QueuePushLink(p))
    /\ WF_vars(QueuePopLoadNext)
    /\ WF_vars(QueuePopMove)
    /\ WF_vars(QueuePopAdvance)

\* a ring buffer of any accepted declared size, newly constructed
IndexStart ==
    /\ inst = "ring"
    /\ RingInit
    /\ QueueInit
    /\ StackInit
    /\ nCapacity \in DeclaredSizes
    /\ nHead = 0
    /\ nTail = 0

\* pushes and pops on a ring buffer of any accepted declared size
IndexSpec == IndexStart /\ [][IndexNext]_vars

\* producers and consumer use a queue that is destroyed after they stopped
QueueDtorSpec == QueueStart /\ [][QueueDtorNext]_vars

\* the queue under that scheduling
QueueLiveSpec == QueueStart /\ [][QueueNext]_vars /\ QueueFairness

\* two threads pushing to and popping from a stack
StackStart == Init /\ inst = "stack"

StackSpec == StackStart /\ [][StackNext]_vars

\* threads use a stack that is destroyed after they stopped
StackDtorSpec == StackStart /\ [][StackDtorNext]_vars

\* the stack with its operations executed one at a time
StackSeqSpec == StackStart /\ [][StackSeqNext]_vars

\* the scheduler lets every thread inside a call take its next step, and a
\* compare_exchange_weak that could succeed again and again does not fail
\* spuriously for ever
StackFairness ==
    \A t \in Threads : WF_vars(StackInCall(t)) /\ SF_vars(StackCasWins(t))

\* the stack under that scheduling
StackLiveSpec == StackStart /\ [][StackLiveNext]_vars /\ StackFairness

-----------------------------------------------------------------------------
(* Helpers of the properties *)

\* s is a prefix of t
IsPrefix(s, t) == Len(s) <= Len(t) /\ \A i \in 1..Len(s) : s[i] = t[i]

-----------------------------------------------------------------------------
(* Properties of the ring buffer *)

\* C1: with one producer and one consumer running concurrently, the values
\* returned by successful pops are at every moment a prefix of the values
\* accepted by successful pushes, in the same order.
RingFifoPrefix == inst = "ring" => IsPrefix(popped, pushed)

\* C1 witness: a push and a pop overlap after tail wrapped past the end of the
\* array, and the consumer has already returned differing values
RingFifoPrefixWitness ==
    /\ inst = "ring"
    /\ pPc = "store"
    /\ cPc = "read"
    /\ mTail < mHead
    /\ Len(popped) >= CAPACITY - 1
    /\ \E i, j \in 1..Len(popped) : popped[i] # popped[j]

\* C6: push returns false exactly when the buffer holds capacity() = CAPACITY - 1
\* elements at the moment push reads head; with fewer elements held at that
\* moment it goes on to return true, having stored the value.
RingPushFailsIffFull ==
    inst = "ring" =>
        /\ (pPc = "idle" /\ pRet = "false") => pSeen = capacity
        /\ pPc \in {"write", "store"} => pSeen < capacity
        /\ (pPc = "idle" /\ pRet = "true") =>
              /\ pSeen < capacity
              /\ mBuffer[pTail] = pItem
              /\ mTail = NextIndex(pTail)
              /\ pushed[Len(pushed)] = pItem

\* C6 witness: a push has just failed on a full buffer whose tail wrapped
RingPushFailsIffFullWitness ==
    /\ inst = "ring"
    /\ pPc = "idle"
    /\ pRet = "false"
    /\ held = capacity
    /\ mTail < mHead

\* C7: pop returns false exactly when the buffer holds no element at the moment
\* pop reads tail; with at least one element held at that moment it returns
\* true with the oldest element.
RingPopFailsIffEmpty ==
    inst = "ring" =>
        /\ (cPc = "idle" /\ cRet = "false") => cSeen = 0
        /\ cPc \in {"read", "store"} => cSeen > 0
        /\ (cPc = "idle" /\ cRet = "true") =>
              /\ cSeen > 0
              /\ Len(popped) <= Len(pushed)
              /\ cItem = pushed[Len(popped)]
              /\ mHead = NextIndex(cHead)

\* C7 witness: a pop failed on an emptied buffer after an earlier one succeeded
RingPopFailsIffEmptyWitness ==
    /\ inst = "ring"
    /\ cPc = "idle"
    /\ cRet = "false"
    /\ Len(popped) >= 2
    /\ mHead = mTail

\* C9: the number of stored elements is between 0 and CAPACITY - 1, head = tail
\* holds exactly when nothing is stored, (tail + 1) mod CAPACITY = head exactly
\* when CAPACITY - 1 elements are stored, and capacity() is CAPACITY - 1.
RingOneSlotUnused ==
    inst = "ring" =>
        /\ held \in 0..(CAPACITY - 1)
        /\ (mHead = mTail) <=> (held = 0)
        /\ ((mTail + 1) % CAPACITY = mHead) <=> (held = CAPACITY - 1)
        /\ capacity = CAPACITY - 1

\* C9 witness: the buffer is full with tail behind head, both threads in a call
RingOneSlotUnusedWitness ==
    /\ inst = "ring"
    /\ held = CAPACITY - 1
    /\ mTail = 0
    /\ mHead = 1
    /\ pPc = "check"
    /\ cPc = "check"

\* C10: a push that returns false leaves tail and every slot as they were when
\* it was called, and head where the consumer's pops since then have put it.
RingFailedPushFrame ==
    inst = "ring" =>
        ((pPc = "idle" /\ pRet = "false") =>
            /\ mTail = pEntry.tail
            /\ mBuffer = pEntry.buf
            /\ mHead = (pEntry.head + Len(popped) - pEntry.npop) % CAPACITY)

\* C10 witness: a push of a value that differs from the one in slot tail failed
RingFailedPushFrameWitness ==
    /\ inst = "ring"
    /\ pPc = "idle"
    /\ pRet = "false"
    /\ mBuffer[pTail] # Unwritten
    /\ mBuffer[pTail] # pItem

\* the number of steps a call of push or pop at position pc still has to take
StepsLeft(pc) ==
    CASE pc = "check" -> 3
      [] pc \in {"write", "read"} -> 2
      [] pc = "store" -> 1
      [] OTHER -> 0

\* C11: push and pop are wait-free: inside a call the caller's next step can
\* always be taken, whatever the state of the other thread, and every step of a
\* caller inside a call brings it nearer to its return, so a call returns after
\* at most three of its own steps and never repeats one.
RingWaitFree ==
    /\ [](inst = "ring" =>
            /\ (pPc = "check" => ENABLED RingPushCheck)
            /\ (pPc = "write" => ENABLED RingPushWrite)
            /\ (pPc = "store" => ENABLED RingPushStore)
            /\ (cPc = "check" => ENABLED RingPopCheck)
            /\ (cPc = "read" => ENABLED RingPopRead)
            /\ (cPc = "store" => ENABLED RingPopStore))
    /\ [][/\ ((pPc # "idle" /\ producerVars' # producerVars)
                  => StepsLeft(pPc') < StepsLeft(pPc))
           /\ ((cPc # "idle" /\ consumerVars' # consumerVars)
                  => StepsLeft(cPc') < StepsLeft(cPc))]_vars

\* C11 witness: the consumer has not moved since the first step of its first
\* pop, and meanwhile the producer filled the buffer and had a push refused
RingWaitFreeWitness ==
    /\ inst = "ring"
    /\ cPc = "check"
    /\ popped = <<>>
    /\ cRet = "none"
    /\ pPc = "idle"
    /\ pRet = "false"
    /\ Len(pushed) = capacity

\* C12: the i-th accepted value lies in slot (i - 1) mod CAPACITY until it is
\* popped, head and tail are the pop and push counts mod CAPACITY, and a pop that
\* has read its slot holds the oldest value not yet popped; so order and values
\* survive any number of wraps of head and tail past the end of the array.
RingWrapKeepsOrder ==
    inst = "ring" =>
        /\ mHead = Len(popped) % CAPACITY
        /\ mTail = Len(pushed) % CAPACITY
        /\ \A i \in (Len(popped) + 1)..Len(pushed) :
              mBuffer[(i - 1) % CAPACITY] = pushed[i]
        /\ (cPc = "store" =>
              /\ Len(popped) < Len(pushed)
              /\ cItem = pushed[Len(popped) + 1])
        /\ (cPc = "idle" /\ cRet = "true") => cItem = pushed[Len(popped)]

\* C12 witness: more values than the array has slots went through the buffer,
\* head and tail have both wrapped, and the last pop returned the last push
RingWrapKeepsOrderWitness ==
    /\ inst = "ring"
    /\ Len(popped) > CAPACITY
    /\ Len(popped) = Len(pushed)
    /\ mHead = mTail
    /\ mHead < CAPACITY - 1
    /\ cPc = "idle"
    /\ cRet = "true"
    /\ pushed[Len(pushed)] # pushed[Len(pushed) - 1]

\* a step of a query: the monitoring thread moves or returns
MonitorSteps == <<mPc, mOp, mFirst, mRet, mFlag>>' # <<mPc, mOp, mFirst, mRet, mFlag>>

\* C23: head is written only by pop's store and tail only by push's store;
\* a step of push leaves head alone, a step of pop leaves tail and the slots
\* alone, and a step of empty(), full(), size() or capacity() changes neither
\* index nor any slot
RingSingleWriter ==
    [][ /\ (mHead' # mHead => (cPc = "store" /\ cPc' = "idle"))
        /\ (mTail' # mTail => (pPc = "store" /\ pPc' = "idle"))
        /\ (mBuffer' # mBuffer => (pPc = "write" /\ pPc' = "store"))
        /\ (producerVars' # producerVars => mHead' = mHead)
        /\ (consumerVars' # consumerVars =>
              (mTail' = mTail /\ mBuffer' = mBuffer))
        /\ (MonitorSteps =>
              (mHead' = mHead /\ mTail' = mTail /\ mBuffer' = mBuffer))
      ]_vars

\* C23 witness: full() has answered true to the monitoring thread while a push
\* and a pop were both in progress
RingSingleWriterWitness ==
    /\ inst = "ring"
    /\ mPc = "idle"
    /\ mOp = "full"
    /\ mFlag = "true"
    /\ pPc = "check"
    /\ cPc = "store"

\* the indices of the slots between head and tail, taken cyclically
HeldSlots == {(mHead + k) % CAPACITY : k \in 0..(size - 1)}

\* C24: the k-th slot from head holds the value of the k-th push not yet
\* popped, tail moves only over a slot that already holds the value being
\* pushed, and a pop that reads a slot reads one that tail has passed
RingPublishedSlotsWritten ==
    /\ [](inst = "ring" =>
            /\ \A k \in 0..(size - 1) :
                  /\ Len(popped) + 1 + k <= Len(pushed)
                  /\ mBuffer[(mHead + k) % CAPACITY]
                        = pushed[Len(popped) + 1 + k]
            /\ (cPc = "read" => (cHead = mHead /\ cHead \in HeldSlots)))
    /\ [][mTail' # mTail =>
            /\ mBuffer[mTail] = pItem
            /\ mBuffer' = mBuffer
            /\ mTail' = NextIndex(mTail)
            /\ pushed' = Append(pushed, pItem)]_vars

\* C24 witness: the producer has written its slot and not yet stored tail,
\* while the consumer is reading the slot at head, after the indices wrapped
RingPublishedSlotsWrittenWitness ==
    /\ inst = "ring"
    /\ pPc = "store"
    /\ cPc = "read"
    /\ mBuffer[mTail] = pItem
    /\ mTail < mHead
    /\ size >= 2

\* C25: between its check and its store the producer's slot is not the slot
\* the consumer holds between its check and its store, and a slot changes
\* only if it is the producer's slot and holds no value still to be popped
RingSlotsDisjoint ==
    /\ [](inst = "ring" =>
            /\ ((pPc \in {"write", "store"} /\ cPc \in {"read", "store"})
                   => pTail # cHead)
            /\ (pPc \in {"write", "store"} => pTail \notin HeldSlots))
    /\ [][\A i \in Slots :
            mBuffer'[i] # mBuffer[i] =>
                /\ i = pTail
                /\ i \notin HeldSlots
                /\ ~(cPc \in {"read", "store"} /\ cHead = i)]_vars

\* C25 witness: the producer is writing a slot below head while the consumer
\* is reading the slot at head and two values are held
RingSlotsDisjointWitness ==
    /\ inst = "ring"
    /\ pPc = "write"
    /\ cPc = "read"
    /\ pTail < cHead
    /\ held = 2

\* C26: with no push or pop in progress, size() is the number of accepted
\* pushes minus the number of successful pops, empty() is size() = 0 and
\* full() is size() = capacity()
RingQuiescentQueries ==
    inst = "ring" =>
        ((pPc = "idle" /\ cPc = "idle") =>
            /\ size = Len(pushed) - Len(popped)
            /\ (empty <=> size = 0)
            /\ (full <=> size = capacity))

\* C26 witness: nothing in progress, tail below head after a wrap, and the
\* buffer full
RingQuiescentQueriesWitness ==
    /\ inst = "ring"
    /\ pPc = "idle"
    /\ cPc = "idle"
    /\ mTail < mHead
    /\ full
    /\ size = capacity

\* C27: whatever the two loads of size() see, also with pushes and pops
\* between them, the value returned is in 0..capacity()
RingSizeInRange ==
    inst = "ring" =>
        /\ \A t \in Slots : \A h \in Slots : SizeOf(t, h) \in 0..capacity
        /\ ((mPc = "idle" /\ mOp = "size") => mRet \in 0..capacity)

\* C27 witness: size() returned with a push and a pop in progress, and both
\* a push and a pop completed between its two loads
RingSizeInRangeWitness ==
    /\ inst = "ring"
    /\ mPc = "idle"
    /\ mOp = "size"
    /\ pPc # "idle"
    /\ cPc # "idle"
    /\ mRet = capacity
    /\ Len(popped) >= 2

RingDrainLeavesNothing ==
    inst = "ring" =>
        (cStop =>
            /\ pDone
            /\ popped = pushed
            /\ mHead = mTail
            /\ pPc = "idle")

\* C29 witness: the consumer left its loop after all the values of the
\* producer went through the buffer
RingDrainLeavesNothingWitness ==
    /\ inst = "ring"
    /\ cStop
    /\ Len(popped) = MaxRingPush
    /\ mHead = mTail

\* C39: for every declared size N the static_asserts accept and every index i
\* in 0..N-1, (i + 1) & (N - 1) is (i + 1) mod N, and head and tail stay in
\* 0..N-1 through every sequence of pushes and pops, each moving by one mod N
RingIndexInRange ==
    /\ [](/\ nHead \in 0..(nCapacity - 1)
          /\ nTail \in 0..(nCapacity - 1)
          /\ \A i \in 0..(nCapacity - 1) :
                /\ IndexAfter(i, nCapacity) = (i + 1) % nCapacity
                /\ (nCapacity = CAPACITY => NextIndex(i) = IndexAfter(i, nCapacity)))
    /\ [][/\ (nTail' # nTail => nTail' = (nTail + 1) % nCapacity)
          /\ (nHead' # nHead => nHead' = (nHead + 1) % nCapacity)]_vars

\* C39 witness: a buffer declared larger than the one of the tests is full
\* after tail has wrapped to 0
RingIndexInRangeWitness ==
    /\ nCapacity > CAPACITY
    /\ nTail = 0
    /\ nHead = 1

-----------------------------------------------------------------------------
(* Properties of the queue *)

\* the entries of s that producer p pushed
FromProducer(s, p) == SelectSeq(s, LAMBDA x : x[1] = p)

\* how often x occurs in s
Count(x, s) == Cardinality({i \in 1..Len(s) : s[i] = x})

\* how often x was passed to push by any producer
CalledCount(x) ==
    Cardinality({c \in Producers \X (1..MaxQueuePush) :
                    c[2] <= Len(qCalled[c[1]]) /\ qCalled[c[1]][c[2]] = x})

\* the values ever passed to push or returned by pop
QueueValuesSeen ==
    {qPopped[i] : i \in 1..Len(qPopped)}
    \cup UNION {{qCalled[p][i] : i \in 1..Len(qCalled[p])} : p \in Producers}

\* C2: with any number of producers and one consumer, the values returned by
\* successful pops are always a prefix of the pushed values in the order of the
\* pushes' tail exchanges; in particular the values of one producer are popped
\* in the order in which that producer pushed them.
QueueFifoByExchange ==
    inst = "queue" =>
        /\ IsPrefix(qPopped, qPushed)
        /\ \A p \in Producers : IsPrefix(FromProducer(qPopped, p), qCalled[p])

\* C2 witness: the consumer has returned a value of producer 2 and then one of
\* producer 1, while another push is between its exchange and its link
QueueFifoByExchangeWitness ==
    /\ inst = "queue"
    /\ Len(qPopped) >= 2
    /\ qPopped[1][1] = 2
    /\ qPopped[2][1] = 1
    /\ \E p \in Producers : qPc[p] = "link"

\* C4: when pop returns false while no producer is inside push, the multiset
\* of popped values equals the multiset of pushed values.
QueueDrainedNothingLost ==
    [][(QueuePopLoadNext /\ kRet' = "false" /\ \A p \in Producers : qPc[p] = "idle")
         => \A x \in QueueValuesSeen : Count(x, qPopped) = CalledCount(x)]_vars

\* C4 witness: both producers have pushed, every producer has finished, and the
\* consumer's last pop, after three successful ones, returned false
QueueDrainedNothingLostWitness ==
    /\ inst = "queue"
    /\ \A p \in Producers : qPc[p] = "idle" /\ Len(qCalled[p]) >= 1
    /\ kPc = "idle"
    /\ kRet = "false"
    /\ Len(qPopped) = MaxQueuePush

\* C13: push on the queue never fails and never waits: the exchange and the link
\* store of a push can be taken in every state of the other threads, a push takes
\* exactly these two steps after building its node (one replaces tail_ by the
\* node, one stores the node into the previous tail's link) and then has returned
\* true; nothing but the exchange of a push changes tail_.
QueuePushAlwaysSucceeds ==
    /\ [](inst = "queue" =>
            \A p \in Producers :
                /\ qRet[p] # "false"
                /\ (qPc[p] = "exchange" => ENABLED QueuePushExchange(p))
                /\ (qPc[p] = "link" => ENABLED QueuePushLink(p)))
    /\ [][/\ \A p \in Producers :
                /\ ((qPc[p] = "exchange" /\ qPc'[p] # qPc[p]) =>
                        /\ qPc'[p] = "link"
                        /\ qPrev'[p] = tail_
                        /\ tail_' = qNode[p]
                        /\ qNext' = qNext)
                /\ ((qPc[p] = "link" /\ qPc'[p] # qPc[p]) =>
                        /\ qPc'[p] = "idle"
                        /\ qRet'[p] = "true"
                        /\ qNext'[qPrev[p]] = qNode[p]
                        /\ tail_' = tail_)
          /\ (tail_' # tail_ =>
                  \E q \in Producers : qPc[q] = "exchange" /\ qPc'[q] = "link")]_vars

\* C13 witness: producer 2 has pushed and returned true while producer 1 has
\* been standing between its exchange and its link and the consumer in a pop
QueuePushAlwaysSucceedsWitness ==
    /\ inst = "queue"
    /\ qPc[1] = "link"
    /\ qPc[2] = "idle"
    /\ qRet[2] = "true"
    /\ qPushed = <<QValue(1, 1), QValue(2, 1)>>
    /\ kRet = "none"

\* the push that passed x has returned (x is in qPushed: its exchange is done)
PushReturned(x) == \A p \in Producers : ~(qPc[p] = "link" /\ qData[qNode[p]] = x)

\* the values whose push has exchanged tail_ and that no pop has returned yet
QueueWaiting == {qPushed[i] : i \in (Len(qPopped) + 1)..Len(qPushed)}

\* C14 as stated: a pop called while some push has returned whose value has not
\* been popped returns true.
QueuePopSucceedsIfPushReturned ==
    [][(QueuePopLoadNext /\ \E x \in QueueWaiting : PushReturned(x))
         => kRet' # "false"]_vars

\* C14: a pop returns false only if no value is waiting, or the push of the
\* oldest waiting value is still between its exchange and its link store; a pop
\* called when the push of the oldest waiting value has returned does not fail.
QueuePopFailsOnlyBehindUnlinked ==
    [][(QueuePopLoadNext /\ kRet' = "false")
         => (\/ Len(qPopped) = Len(qPushed)
             \/ ~PushReturned(qPushed[Len(qPopped) + 1]))]_vars

\* C14 witness: a pop returned false while the value of producer 2, whose push
\* has returned, waits behind the unlinked node of producer 1
QueuePopFailsOnlyBehindUnlinkedWitness ==
    /\ inst = "queue"
    /\ kPc = "idle"
    /\ kRet = "false"
    /\ qPc[1] = "link"
    /\ qPc[2] = "idle"
    /\ qRet[2] = "true"
    /\ qPopped = <<>>
    /\ qPushed = <<QValue(1, 1), QValue(2, 1)>>

\* C15: whenever a push stands between its exchange and its link store and the
\* previous tail is the sentinel head_, tail_ is no longer head_ but empty()
\* returns true and a pop called in that state returns false.
QueueWindowLooksEmpty ==
    inst = "queue" =>
        \A p \in Producers :
            (qPc[p] = "link" /\ qPrev[p] = head_) =>
                /\ tail_ # head_
                /\ Len(qPushed) > Len(qPopped)
                /\ QueueEmpty
                /\ (kPc = "idle" =>
                       /\ ENABLED (QueuePopLoadNext /\ kRet' = "false")
                       /\ ~ENABLED (QueuePopLoadNext /\ kRet' # "false"))

\* C15 witness: after earlier traffic a push has made its node the tail and not
\* yet linked it to the sentinel, and the consumer's pop has returned false
QueueWindowLooksEmptyWitness ==
    /\ inst = "queue"
    /\ \E p \in Producers :
          /\ qPc[p] = "link"
          /\ qPrev[p] = head_
          /\ tail_ = qNode[p]
    /\ QueueEmpty
    /\ kPc = "idle"
    /\ kRet = "false"
    /\ Len(qPopped) >= 1
    /\ Len(qPushed) = Len(qPopped) + 1

\* every value passed to push so far has been returned by a pop
QueueDelivered ==
    \A p \in Producers : \A i \in 1..Len(qCalled[p]) :
        \E k \in 1..Len(qPopped) : qPopped[k] = qCalled[p][i]

\* C16: under the scheduling of QueueFairness every value passed to push is
\* eventually returned by a pop: after every moment of a behaviour comes a
\* moment at which all values passed to push until then have been popped.
QueueEveryPushDelivered == []<>QueueDelivered

\* C16 witness: every push call of the behaviour was made, by both producers,
\* and the consumer has returned the last of the values in its latest pop
QueueEveryPushDeliveredWitness ==
    /\ inst = "queue"
    /\ Len(qPopped) = MaxQueuePush
    /\ \A p \in Producers : qPc[p] = "idle" /\ Len(qCalled[p]) >= 1
    /\ kPc = "idle"
    /\ kRet = "true"
    /\ kEntry = qPopped[Len(qPopped) - 1]

\* node `to' is met within k next-links of node `from'
RECURSIVE QueueReaches(_, _, _)
QueueReaches(from, to, k) ==
    IF from = to THEN TRUE
    ELSE IF k = 0 \/ from = Null \/ qNext[from] = Null THEN FALSE
    ELSE QueueReaches(qNext[from], to, k - 1)

\* the link a node will carry once the pushes past their exchange have stored
\* prev->next: the link stored already, or the one a producer is about to store
PendingNext(n) ==
    IF \E p \in Producers : qPc[p] = "link" /\ qPrev[p] = n
    THEN qNode[CHOOSE p \in Producers : qPc[p] = "link" /\ qPrev[p] = n]
    ELSE qNext[n]

\* as QueueReaches, following PendingNext
RECURSIVE QueueWillReach(_, _, _)
QueueWillReach(from, to, k) ==
    IF from = to THEN TRUE
    ELSE IF k = 0 \/ from = Null \/ PendingNext(from) = Null THEN FALSE
    ELSE QueueWillReach(PendingNext(from), to, k - 1)

\* C30 as stated: in every state the next-links lead from head_ to the node
\* tail_ points to
QueueTailAlwaysReachable ==
    inst = "queue" => QueueReaches(head_, tail_, MaxQueueNodes)

\* C30: the next-links lead from head_ to tail_ whenever no push is between
\* its exchange and its store of prev->next; while some are, the links lead
\* there once the stores those pushes still owe are added
QueueTailReachableOnceLinked ==
    inst = "queue" =>
        /\ ((\A p \in Producers : qPc[p] # "link")
               => QueueReaches(head_, tail_, MaxQueueNodes))
        /\ QueueWillReach(head_, tail_, MaxQueueNodes)

\* C30 witness: a push has exchanged tail_ and not yet linked its node, no
\* next-links lead from head_ to tail_, and the consumer has popped a value
QueueTailReachableOnceLinkedWitness ==
    /\ inst = "queue"
    /\ \E p \in Producers : qPc[p] = "link" /\ tail_ = qNode[p]
    /\ ~QueueReaches(head_, tail_, MaxQueueNodes)
    /\ Len(qPopped) >= 1

\* statements pop has left before it returns true
StepsLeftOfPop(pc) ==
    IF pc = "idle" THEN 0 ELSE IF pc = "advance" THEN 1 ELSE 2

\* no producer is inside a call of push
QueueProducersIdle == \A p \in Producers : qPc[p] = "idle"

\* C31: the node a producer has allocated and the previous tail it obtained
\* from its exchange are allocated until it has stored its link; a node is
\* deleted only by the pop step that moves head_ off it, when no producer
\* holds it; and no step reads or writes a deleted node
QueueNoUseAfterDelete ==
    /\ [](inst = "queue" =>
            /\ ~qFreedUse
            /\ \A p \in Producers :
                  /\ (qPc[p] \in {"exchange", "link"} => qNode[p] \in qAlloc)
                  /\ (qPc[p] = "link" => qPrev[p] \in qAlloc)
            /\ head_ \in qAlloc
            /\ tail_ \in qAlloc)
    /\ [][\A n \in QNodes :
            (n \in qAlloc /\ n \notin qAlloc') =>
                /\ kPc = "advance"
                /\ n = head_
                /\ head_' = kNext
                /\ head_' # n
                /\ \A p \in Producers :
                      /\ ~(qPc[p] = "link" /\ qPrev[p] = n)
                      /\ ~(qPc[p] \in {"exchange", "link"} /\ qNode[p] = n)]_vars

\* C31 witness: the consumer deletes the old sentinel while a producer that
\* exchanged tail_ after the deleted node was linked has not yet stored its link
QueueNoUseAfterDeleteWitness ==
    /\ inst = "queue"
    /\ kPc = "idle"
    /\ kRet = "true"
    /\ Len(qPopped) >= 2
    /\ \E p \in Producers : qPc[p] = "link" /\ qPrev[p] = head_

\* C32: the pop step that returns true deletes the old sentinel, which is
\* allocated, and makes the node whose value it returns the sentinel; the
\* allocated nodes are the dummy and one per call of push, less one per
\* successful pop; the destructor deletes only allocated nodes and leaves
\* none allocated
QueueNodesDeletedOnce ==
    /\ [](inst = "queue" =>
            /\ (qdPc = "live" =>
                  Cardinality(qAlloc) = 1 + QueueCalls - Len(qPopped))
            /\ (qdPc = "done" => qAlloc = {}))
    /\ [][/\ (QueuePopAdvance =>
                /\ head_ \in qAlloc
                /\ qAlloc' = qAlloc \ {head_}
                /\ head_' \in qAlloc'
                /\ qData[head_'] = kValue'
                /\ qPopped' = Append(qPopped, kValue'))
          /\ (QueueDtorStep =>
                /\ qdCurrent \in qAlloc
                /\ qAlloc' = qAlloc \ {qdCurrent})]_vars

\* C32 witness: the destructor has run on a queue from which values had been
\* popped and on which values were still waiting
QueueNodesDeletedOnceWitness ==
    /\ inst = "queue"
    /\ qdPc = "done"
    /\ Len(qPopped) >= 1
    /\ Len(qPushed) >= Len(qPopped) + 2

QueueQuiescentEmpty ==
    /\ [](inst = "queue" =>
            (QueueProducersIdle =>
                (QueueEmpty <=> Len(qPopped) = Len(qPushed))))
    /\ [][(QueueProducersIdle /\ QueuePopLoadNext) =>
             (kRet' = "false" <=> QueueEmpty)]_vars

\* C34 witness: all pushes have returned, two values are waiting, and the
\* last pop returned false before they were pushed
QueueQuiescentEmptyWitness ==
    /\ inst = "queue"
    /\ QueueProducersIdle
    /\ kPc = "idle"
    /\ kRet = "false"
    /\ ~QueueEmpty
    /\ Len(qPushed) = Len(qPopped) + 2

-----------------------------------------------------------------------------
(* Properties of the stack *)

\* the values pushed and not yet returned by a pop
Unpopped == {v \in StackValues : sPushCount[v] > sPopCount[v]}

\* the largest element of a non-empty set of numbers
Max(S) == CHOOSE x \in S : \A y \in S : y <= x

\* C3: with the operations executed one at a time, a successful pop returns the
\* most recently pushed value that has not yet been popped (the i-th push passes
\* the value i, so this is the largest such value), and pop returns false
\* exactly when every pushed value has been popped.
StackSequentialLifo ==
    [][\A t \in Threads :
         /\ ((StackPopLoad(t) \/ StackPopCas(t)) /\ tRet'[t] = "false")
               => Unpopped = {}
         /\ (StackPopLoad(t) /\ tRet'[t] # "false") => Unpopped # {}
         /\ StackPopSize(t) => (Unpopped # {} /\ tValue[t] = Max(Unpopped))]_vars

\* C3 witness: after push 1, push 2, push 3 were all popped, the last successful
\* pop returned the value pushed first, and another pop returned false
StackSequentialLifoWitness ==
    /\ inst = "stack"
    /\ \A t \in Threads : tPc[t] = "idle"
    /\ Total(sPopCount, DOMAIN sPopCount) = MaxStackPush
    /\ \E t, u \in Threads :
          /\ tRet[t] = "true"
          /\ tValue[t] = 1
          /\ tRet[u] = "false"

\* C5: when a pop returns false while no other thread is inside a call, the
\* multiset of values returned by successful pops equals the multiset of values
\* pushed.
StackDrainedNothingLost ==
    [][\A t \in Threads :
         ((StackPopLoad(t) \/ StackPopCas(t))
            /\ tRet'[t] = "false"
            /\ \A u \in Threads \ {t} : tPc[u] = "idle")
         => sPopCount = sPushCount]_vars

\* C5 witness: both threads have popped values, every push call was made, all
\* threads have finished and the last pop returned false
StackDrainedNothingLostWitness ==
    /\ inst = "stack"
    /\ \A t \in Threads : tPc[t] = "idle" /\ tValue[t] # Unwritten
    /\ \E t \in Threads : tRet[t] = "false"
    /\ sHead.ptr = Null
    /\ Total(sPushCount, DOMAIN sPushCount) = MaxStackPush

\* s in reverse order
Reverse(s) == [i \in 1..Len(s) |-> s[Len(s) + 1 - i]]

RECURSIVE ChainData(_, _)
\* the data of the nodes reached from node n through next, at most k of them
ChainData(n, k) ==
    IF n = Null \/ k = 0 THEN <<>>
    ELSE <<sData[n]>> \o ChainData(sNext[n], k - 1)

\* thread t's compare-exchange succeeds in this step
PushCasSucceeds(t) == tPc[t] = "pushCas" /\ tPc'[t] = "pushSize"
PopCasSucceeds(t) == tPc[t] = "popCas" /\ tPc'[t] = "popMove"

\* C17: the stack is linearizable to the sequential stack sAbs, which every
\* successful compare-exchange of a push extends and every successful
\* compare-exchange of a pop shortens by its top: the nodes linked from mHead
\* hold the values of sAbs from the top down, a pop that returns true returns
\* the value that was on top of sAbs at its compare-exchange, and a pop returns
\* false only on reading a null head while sAbs is empty.
StackLinearizable ==
    /\ [](inst = "stack" =>
            /\ ChainData(sHead.ptr, MaxStackNodes + 1) = Reverse(sAbs)
            /\ \A t \in Threads :
                  tPc[t] = "popSize" =>
                      (tTop[t] \in StackValues /\ tValue[t] = tTop[t]))
    /\ [][\A t \in Threads :
             /\ (PushCasSucceeds(t) => sAbs' = Append(sAbs, sData[tNode[t]]))
             /\ (PopCasSucceeds(t) =>
                    (sAbs # <<>> /\ sAbs' = SubSeq(sAbs, 1, Len(sAbs) - 1)))
             /\ (((StackPopLoad(t) \/ StackPopCas(t)) /\ tRet'[t] = "false")
                    => (sAbs = <<>> /\ sHead.ptr = Null))]_vars

\* C17 witness: a pop is about to return the value that was on top at its
\* compare-exchange, while the push of a later value by the other thread has
\* since put that value on top
StackLinearizableWitness ==
    /\ inst = "stack"
    /\ \E t, u \in Threads :
          /\ tPc[t] = "popSize"
          /\ tPc[u] = "pushSize"
          /\ sAbs # <<>>
          /\ sAbs[Len(sAbs)] > tValue[t]
          /\ Len(sAbs) = 2

\* C18: the counter of the tagged head equals the number of successful
\* compare-exchanges so far; it grows by exactly 1 in every successful
\* compare-exchange of a push or a pop, and no other step changes the head: not
\* a failed compare-exchange and not a pop that finds the stack empty.
StackCounterCountsUpdates ==
    /\ [](inst = "stack" => sHead.counter = sUpdates)
    /\ [][/\ \A t \in Threads :
                (PushCasSucceeds(t) \/ PopCasSucceeds(t))
                    => sHead'.counter = sHead.counter + 1
          /\ (\A t \in Threads : ~(PushCasSucceeds(t) \/ PopCasSucceeds(t)))
                => sHead' = sHead
          /\ sHead'.counter >= sHead.counter]_vars

\* C18 witness: after every push call and as many pops the counter is twice the
\* number of pushes, and a pop of the emptied stack has returned false
StackCounterCountsUpdatesWitness ==
    /\ inst = "stack"
    /\ sHead.counter = 2 * MaxStackPush
    /\ \E t \in Threads : tPc[t] = "idle" /\ tRet[t] = "false"

\* C19: a compare-exchange of push or pop succeeds only if no compare-exchange
\* has succeeded since the thread read mHead into head; while one has, the
\* thread's head differs from mHead even if the pointers are equal.
StackCasOnlyIfUnchanged ==
    /\ [](inst = "stack" =>
            \A t \in Threads :
                (tPc[t] \in {"pushCas", "popRead", "popCas"} /\ tSeen[t] # sUpdates)
                    => ~CasMatches(sHead, tHead[t]))
    /\ [][\A t \in Threads :
             (PushCasSucceeds(t) \/ PopCasSucceeds(t)) => tSeen[t] = sUpdates]_vars

\* C19 witness: a pop stands before its compare-exchange with a head whose node
\* was popped, deleted and pushed again since, so that mHead holds the same
\* pointer with another counter
StackCasOnlyIfUnchangedWitness ==
    /\ inst = "stack"
    /\ \E t \in Threads :
          /\ tPc[t] = "popCas"
          /\ tHead[t].ptr = sHead.ptr
          /\ tHead[t].counter + 2 <= sHead.counter
          /\ tSeen[t] # sUpdates

\* C20 as stated: no thread reads a node after the pop that won it has deleted
\* it; a pop that is about to read head.ptr->next holds a node that is allocated.
StackNoReadOfFreedNode ==
    inst = "stack" =>
        /\ ~sFreedUse
        /\ \A t \in Threads : tPc[t] = "popRead" => tHead[t].ptr \in sAlloc

\* a push or a pop returns
StackCompletes == \E t \in Threads : tPc[t] # "idle" /\ tPc'[t] = "idle"

\* no call of push or pop is in progress
StackAllIdle == \A t \in Threads : tPc[t] = "idle"

StackEmptyOnlyWhenEmpty ==
    [][\A t \in Threads :
          ((StackPopLoad(t) \/ StackPopCas(t)) /\ tRet'[t] = "false") =>
              /\ sHead.ptr = Null
              /\ sAbs = <<>>
              /\ 2 * Total(sPushCount, StackValues) = sUpdates]_vars

\* C22 witness: a pop has returned false after a push and a pop succeeded,
\* while the other thread is about to publish a node
StackEmptyOnlyWhenEmptyWitness ==
    /\ inst = "stack"
    /\ sUpdates >= 2
    /\ sHead.ptr = Null
    /\ \E t \in Threads : \E u \in Threads \ {t} :
          /\ tPc[t] = "idle"
          /\ tRet[t] = "false"
          /\ tPc[u] = "pushCas"

\* C35: a node is taken off the list by one successful compare-exchange of
\* pop at most; the threads that won a pop hold different, allocated nodes,
\* each value is returned at most once, every delete is of an allocated node,
\* the allocated nodes are those pushed and not yet deleted by a pop, and the
\* destructor deletes the nodes left and ends with none allocated
StackNodesOwnedOnce ==
    /\ [](inst = "stack" =>
            /\ \A t \in Threads :
                  tPc[t] = "popMove" =>
                      /\ tHead[t].ptr \in sAlloc
                      /\ \A u \in Threads \ {t} :
                            tPc[u] = "popMove" => tHead[u].ptr # tHead[t].ptr
            /\ \A v \in StackValues :
                  sPopCount[v] <= sPushCount[v] /\ sPushCount[v] <= 1
            /\ (sdPc = "live" =>
                  Cardinality(sAlloc) =
                      StackCalls - Total(sPopCount, StackValues)
                      - Cardinality({t \in Threads : tPc[t] = "popSize"}))
            /\ (sdPc = "done" => sAlloc = {}))
    /\ [][/\ \A t \in Threads :
                /\ (PopCasSucceeds(t) =>
                      /\ sHead.ptr = tHead[t].ptr
                      /\ sHead'.ptr # tHead[t].ptr
                      /\ tHead[t].ptr \in sAlloc)
                /\ ((tPc[t] = "popMove" /\ tPc'[t] = "popSize") =>
                      /\ tHead[t].ptr \in sAlloc
                      /\ sAlloc' = sAlloc \ {tHead[t].ptr}
                      /\ tValue'[t] = tTop[t])
          /\ (StackDtorStep =>
                /\ sdHead \in sAlloc
                /\ sAlloc' = sAlloc \ {sdHead})]_vars

\* C35 witness: the destructor has run on a stack from which a value had been
\* popped and on which a node was left
StackNodesOwnedOnceWitness ==
    /\ inst = "stack"
    /\ sdPc = "done"
    /\ Total(sPopCount, StackValues) >= 1
    /\ Total(sPushCount, StackValues) > Total(sPopCount, StackValues)

\* C36 as stated: the value size() reads is at most the number of pushes
\* whose compare-exchange has succeeded
StackSizeAtMostPushes ==
    inst = "stack" => sSize <= Total(sPushCount, StackValues)

\* C37: with no push or pop in progress, size() is the number of nodes linked
\* from mHead, which is the successful pushes minus the successful pops, and
\* empty() is true exactly when mHead.ptr is null
StackQuiescentSize ==
    inst = "stack" =>
        (StackAllIdle =>
            /\ sSize = Len(ChainData(sHead.ptr, MaxStackNodes))
            /\ sSize = Total(sPushCount, StackValues)
                          - Total(sPopCount, StackValues)
            /\ (sEmpty <=> sHead.ptr = Null))

\* C37 witness: nothing in progress, two nodes on the stack and a value popped
StackQuiescentSizeWitness ==
    /\ inst = "stack"
    /\ StackAllIdle
    /\ sSize = 2
    /\ Total(sPopCount, StackValues) >= 1

-----------------------------------------------------------------------------
(* Properties of all three containers *)

\* C8: on the ring buffer, the queue and the stack, whenever pop returns false
\* the caller's output argument holds the value it had before the call.
FailedPopKeepsOutput ==
    /\ (inst = "ring" /\ cPc = "idle" /\ cRet = "false") => cItem = cEntry
    /\ (inst = "queue" /\ kPc = "idle" /\ kRet = "false") => kValue = kEntry
    /\ inst = "stack" =>
          \A t \in Threads :
              (tPc[t] = "idle" /\ tRet[t] = "false") => tValue[t] = tEntry[t]

\* C8 witness: a pop of the queue returned false with the output argument
\* holding the value an earlier pop had put there
FailedPopKeepsOutputWitness ==
    /\ inst = "queue"
    /\ kPc = "idle"
    /\ kRet = "false"
    /\ kValue # QNoValue
    /\ qPushed # <<>>
    /\ kValue = qPushed[Len(qPopped)]

\* C38: the steps of a pop that returns false change no shared state: on the
\* ring buffer mHead, mTail and the slots, on the queue head_, tail_, the
\* allocated nodes and their fields, on the stack mHead (pointer and counter),
\* mSize and the nodes
FailedPopChangesNothing ==
    [][/\ ((cPc = "check" /\ cPc' = "idle" /\ cRet' = "false") =>
             UNCHANGED <<mHead, mTail, mBuffer>>)
       /\ ((cPc = "idle" /\ cPc' = "check") =>
             UNCHANGED <<mHead, mTail, mBuffer>>)
       /\ ((kPc = "idle" /\ kPc' = "idle" /\ kRet' = "false"
              /\ qConsumerVars' # qConsumerVars) =>
             UNCHANGED <<head_, tail_, qAlloc, qNext, qData>>)
       /\ \A t \in Threads :
             ((StackPopLoad(t) \/ StackPopRead(t)
                  \/ (StackPopCas(t) /\ tPc'[t] # "popMove")) =>
                UNCHANGED <<sHead, mSize, sAlloc, sNext, sData>>)
      ]_vars

\* C38 witness: a pop of the queue has returned false while a push that had
\* exchanged tail_ was about to store its link
FailedPopChangesNothingWitness ==
    /\ inst = "queue"
    /\ kPc = "idle"
    /\ kRet = "false"
    /\ tail_ # head_
    /\ \E p \in Producers : qPc[p] = "link" /\ qPrev[p] = head_

=============================================================================
